---------------------------- MODULE Spec2Model ----------------------------
(***************************************************************************)
(* Model of the parallel segmented sieve with multiple consumers           *)
(* ("variation 9") of the nt toolkit: src/main.rs (Commands::Primes),      *)
(* src/primes.rs (find_primes_v9_multi_consumers, find_primes_v2) and      *)
(* src/storage.rs (save_primes_multi_consumer_binary,                      *)
(* save_small_primes_binary).                                              *)
(*                                                                         *)
(* Threads: the main thread, num_workers scoped worker threads, one        *)
(* consumer thread per output file.  Each action is one step of one        *)
(* thread between two points where it touches shared state (the atomic     *)
(* cursor next_segment, a bounded channel).                                *)
(*                                                                         *)
(* Spec and FairSpec are the runs in which no write to a file fails;       *)
(* IoSpec adds the failures of write_all and of opening primes_small.bin.  *)
(* UnitSpec runs save_primes_multi_consumer_binary on its own, against a   *)
(* sender that may send any ids, and UringSpec does the same for           *)
(* save_primes_multi_consumer_uring and its UringBatchWriter               *)
(* (src/storage_uring.rs) with the kernel completing writes in any order.  *)
(***************************************************************************)
EXTENDS Integers, Sequences, FiniteSets, TLC

(***************************************************************************)
(* Bounds of the model.  The source fixes SEGMENT_SIZE_BITS = 262144       *)
(* (primes.rs:6) and CHANNEL_CAPACITY = 100 (main.rs:331); the model keeps *)
(* the code's formulas and scales the two sizes down so that several       *)
(* segments, full channels and blocked senders occur in small runs.        *)
(***************************************************************************)
MaxLimit == 23
MaxWorkers == 2
MaxConsumers == 2
SEGMENT_SIZE_BITS == 2
CHANNEL_CAPACITY == 1

(***************************************************************************)
(* storage_uring.rs:120-122 has QUEUE_DEPTH = 256, MAX_IN_FLIGHT = 200,    *)
(* BATCH_SIZE = 64 and waits for 100 completions at a time (line 219);     *)
(* they are scaled down in the same way, keeping their order.  MaxSends    *)
(* bounds the messages a consumer run on its own is handed.                *)
(***************************************************************************)
QUEUE_DEPTH == 3
MAX_IN_FLIGHT == 2
BATCH_SIZE == 2
WAIT_BATCH == 1
MaxSends == 4
MaxTextLen == 4
MaxNum == 130
WordBits == 6

SEGMENT_SIZE_NUMBERS == SEGMENT_SIZE_BITS * 2

VARIABLES
    limit,            \* the CLI argument `limit` (N)
    num_workers,      \* the CLI argument `workers`
    consumers,        \* the CLI argument `consumers`
    mpc,              \* position of the main thread
    sqrt_limit,       \* main's sqrt_limit
    effective_limit,  \* main's effective_limit, the `limit` of the sieve
    low,              \* first number of segment 0
    total_segments,   \* number of segments of the run
    small_primes,     \* the shared trial-divisor base
    result,           \* what find_primes_v9_multi_consumers returned
    next_segment,     \* the shared AtomicUsize cursor
    wpc,              \* position of each worker
    wseg,             \* the SegmentPrimes a worker holds between claim and send
    chan,             \* per consumer: the sync_channel's buffer (oldest first)
    senders_alive,    \* TRUE while some SyncSender clone of the run exists
    cpc,              \* position of each consumer
    segment_buffer,   \* per consumer: BTreeMap segment_id -> primes
    next_expected_id, \* per consumer
    count,            \* per consumer: the count it returns
    file,             \* per consumer: bytes of primes_{c}.bin
    small_file,       \* bytes of primes_small.bin
    small_count,      \* what save_small_primes_binary returned
    total_received,   \* the shared AtomicUsize receive counter
    fpc,              \* the primes_bases function that was applied, if any
    arg_text,         \* is_palindrome's argument, as character codes
    arg_num,          \* to_base's argument num
    arg_base,         \* to_base's argument base
    ret_bool,         \* what is_palindrome returned
    ret_text,         \* what to_base returned, as character codes
    io_ok,            \* environment: a write issued now succeeds
    dir,              \* environment: the entries of the data directory
    removed,          \* history: the names the latest clean-up removed
    sqes,             \* io_uring: submission queue entries not yet submitted
    kernel,           \* io_uring: the writes the kernel holds
    cq,               \* io_uring: completion queue, TRUE for result >= 0
    offset,           \* UringBatchWriter.offset
    submitted,        \* UringBatchWriter.submitted
    completed,        \* UringBatchWriter.completed
    pending_buffers,  \* UringBatchWriter.pending_buffers, by write number
    batch_count,      \* save_primes_multi_consumer_uring's batch_count
    wait_left,        \* iterations left in the running wait_completions
    seen_failure,     \* history: the consumer has read a failed completion
    late_submit,      \* history: a write was submitted after that
    total,            \* the total the joining thread reports
    claimed,          \* history: every value fetch_add returned, in order
    sentCount,        \* history: segment_id -> number of successful sends
    flushed,          \* history: per consumer, the segment ids written, in order
    received          \* history: per consumer, the segment ids received, in order

env == <<io_ok, dir, removed>>
uring == <<sqes, kernel, cq, offset, submitted, completed, pending_buffers,
           batch_count, wait_left, seen_failure, late_submit>>
cli == <<limit, num_workers, consumers>>
calc == <<fpc, arg_text, arg_num, arg_base, ret_bool, ret_text>>
run == <<sqrt_limit, effective_limit, low, total_segments, small_primes>>

vars == <<cli, env, uring, calc, total_received, run, result, mpc, next_segment, wpc, wseg, chan, senders_alive,
          cpc, segment_buffer, next_expected_id, count, file,
          small_file, small_count, total, claimed, sentCount, flushed,
          received>>

Workers == 1..num_workers
Consumers == 1..consumers

-----------------------------------------------------------------------------
(* Pure helpers *)

Min(a, b) == IF a <= b THEN a ELSE b

\* (limit as f64).sqrt() as usize, exact in the modelled range
ISqrt(n) == CHOOSE r \in 0..n : r * r <= n /\ (r + 1) * (r + 1) > n

\* x | 1
OrOne(x) == IF x % 2 = 0 THEN x + 1 ELSE x

\* The elements of a finite set of integers, ascending
SortedSeq(S) ==
    [i \in 1..Cardinality(S) |->
        CHOOSE x \in S : Cardinality({y \in S : y < x}) = i - 1]

SeqToSet(s) == {s[i] : i \in 1..Len(s)}

\* find_primes_v2: the marking loop over i in lo..hi on the odd-only array
\* is_prime (index j stands for 2*j + 3, j in 0..size-1)
RECURSIVE V2Mark(_, _, _, _)
V2Mark(is_prime, i, hi, size) ==
    IF i > hi THEN is_prime
    ELSE IF is_prime[i]
         THEN LET p == 2 * i + 3
                  j0 == (p * p - 3) \div 2
              IN V2Mark([j \in 0..(size - 1) |->
                            IF j >= j0 /\ (j - j0) % p = 0 THEN FALSE
                            ELSE is_prime[j]],
                        i + 1, hi, size)
         ELSE V2Mark(is_prime, i + 1, hi, size)

find_primes_v2(n) ==
    IF n < 2 THEN <<>>
    ELSE IF n = 2 THEN <<2>>
    ELSE LET size == (n - 1) \div 2
             sq == (ISqrt(n) - 1) \div 2
             marked == V2Mark([j \in 0..(size - 1) |-> TRUE], 0, sq, size)
         IN <<2>> \o SortedSeq({2 * j + 3 : j \in {k \in 0..(size - 1) : marked[k]}})


\* 8-byte little-endian encoding of a value: (prime as u64).to_le_bytes()
RECURSIVE ShiftRightBytes(_, _)
ShiftRightBytes(v, k) == IF k = 0 THEN v ELSE ShiftRightBytes(v \div 256, k - 1)

to_le_bytes(v) == [i \in 1..8 |-> ShiftRightBytes(v, i - 1) % 256]

\* The bytes of a list of values, 8 per value
EncodeAll(values) ==
    [i \in 1..(8 * Len(values)) |->
        to_le_bytes(values[((i - 1) \div 8) + 1])[((i - 1) % 8) + 1]]

-----------------------------------------------------------------------------
(* The data directory: storage.rs:42-58, 583, 636.  An entry is a name, as  *)
(* character codes, and whether remove_file succeeds on it (it does not on  *)
(* a directory, or on a file the user may not unlink).                      *)

\* str::starts_with and str::ends_with
StartsWith(s, prefix) ==
    Len(s) >= Len(prefix) /\ SubSeq(s, 1, Len(prefix)) = prefix

EndsWith(s, suffix) ==
    Len(s) >= Len(suffix) /\ SubSeq(s, Len(s) - Len(suffix) + 1, Len(s)) = suffix

\* "primes_" and ".bin"
PrimesUnderscore == <<112, 114, 105, 109, 101, 115, 95>>
DotBin == <<46, 98, 105, 110>>

\* `{}` of format! for a usize: its decimal digits
RECURSIVE DisplayUsize(_)
DisplayUsize(n) ==
    IF n < 10 THEN <<48 + n>> ELSE DisplayUsize(n \div 10) \o <<48 + (n % 10)>>

\* storage.rs:636: format!("primes_{}.bin", consumer_id)
ConsumerFileName(c) == PrimesUnderscore \o DisplayUsize(c) \o DotBin

\* storage.rs:583: "primes_small.bin"
SmallFileName == PrimesUnderscore \o <<115, 109, 97, 108, 108>> \o DotBin

\* storage.rs:455: "primes.bin", the file of the binary consumer of variation 8
V8BinFileName == <<112, 114, 105, 109, 101, 115>> \o DotBin

\* storage.rs:357: "primes.txt", the file of its text consumer
V8TextFileName == <<112, 114, 105, 109, 101, 115, 46, 116, 120, 116>>

EntryNames(d) == {e.name : e \in d}

\* OpenOptions::new().create(true).write(true).truncate(true).open(path): an
\* entry of that name is kept, otherwise a regular file is created
Created(d, name) ==
    IF name \in EntryNames(d) THEN d
    ELSE d \cup {[name |-> name, removable |-> TRUE]}

\* storage.rs:48: the test of cleanup_prime_files
IsPrimeFile(name) == StartsWith(name, PrimesUnderscore) /\ EndsWith(name, DotBin)

\* Mutant of cleanup_prime_files: nothing is removed
CleanupKeepsAll(d) == d

\* storage.rs:43-57: every entry that passes the test is removed; when
\* remove_file fails a warning is printed and the entry stays
cleanup_prime_files(d) ==
    {e \in d : ~IsPrimeFile(e.name) \/ ~e.removable}

-----------------------------------------------------------------------------
(* main.rs: limit adjustment for the segmented variations *)

\* Mutant of LimitTooSmall: the check is missing
LimitNeverTooSmall(n) == FALSE

\* main.rs:202-210: the segmented variations refuse a limit below one segment
LimitTooSmall(n) == n < SEGMENT_SIZE_NUMBERS

\* main.rs:213
SqrtLimitOf(n) == ISqrt(n)

\* main.rs:214 and primes.rs:744-747: first odd number after sqrt_limit
LowOf(sq) == OrOne(sq + 1)

\* usize: the largest value of the machine word, and arithmetic modulo 2^w
\* (what a release build computes; a debug build panics instead of wrapping)
WordMax == 2^WordBits - 1

Wrap(x) == x % (WordMax + 1)

\* main.rs:215-218: the limit rounded up to a whole number of segments
EffectiveLimitOf(n, lo) ==
    LET range_to_cover == IF n >= lo THEN n - lo + 1 ELSE 0
        num_segments == Wrap(range_to_cover + SEGMENT_SIZE_NUMBERS - 1)
                            \div SEGMENT_SIZE_NUMBERS
    IN Wrap(Wrap(lo + Wrap(num_segments * SEGMENT_SIZE_NUMBERS)) - 1)

\* One of the additions and multiplications of main.rs:215-218 leaves the
\* machine word
EffectiveLimitOverflows(n, lo) ==
    LET range_to_cover == IF n >= lo THEN n - lo + 1 ELSE 0
        num_segments == (range_to_cover + SEGMENT_SIZE_NUMBERS - 1)
                            \div SEGMENT_SIZE_NUMBERS
    IN \/ range_to_cover + SEGMENT_SIZE_NUMBERS - 1 > WordMax
       \/ lo + (num_segments * SEGMENT_SIZE_NUMBERS) > WordMax

-----------------------------------------------------------------------------
(* primes.rs: find_primes_v9_multi_consumers, called with                  *)
(* (effective_limit, sqrt_limit, senders, num_workers)                     *)

\* The early returns `return vec![]` before any worker is spawned
V9EarlyReturn(lim, lo, num_consumers) ==
    \/ lim < 2
    \/ num_consumers = 0
    \/ lim < lo

\* primes.rs:750-755
TotalSegmentsOf(lim, lo) ==
    LET total_range == lim - lo + 1
    IN (total_range + SEGMENT_SIZE_NUMBERS - 1) \div SEGMENT_SIZE_NUMBERS

segment_words == (SEGMENT_SIZE_BITS + 63) \div 64

\* primes.rs:785: seg_low of a segment index, for the first number `lo`
SegLowOf(segment_idx, lo) == lo + segment_idx * SEGMENT_SIZE_NUMBERS

\* Mutant of SegHighOf: the end of the segment is not clamped to the limit
SegHighUnclamped(segment_idx, lo, lim) ==
    SegLowOf(segment_idx, lo) + SEGMENT_SIZE_NUMBERS - 1

\* primes.rs:786: seg_high = min(seg_low + SEGMENT_SIZE_NUMBERS - 1, limit)
SegHighOf(segment_idx, lo, lim) ==
    Min(SegLowOf(segment_idx, lo) + SEGMENT_SIZE_NUMBERS - 1, lim)

\* The two for the run: the function's `limit` is main's effective_limit
SegLow(segment_idx) == SegLowOf(segment_idx, low)

SegHigh(segment_idx) == SegHighOf(segment_idx, low, effective_limit)

\* Mutant of FirstOddMultiple: an even first multiple is not moved on to the
\* next, odd one
FirstMultiple(seg_low, p) == ((seg_low + p - 1) \div p) * p

\* First odd multiple of p that is >= seg_low
FirstOddMultiple(seg_low, p) ==
    LET start == ((seg_low + p - 1) \div p) * p
    IN IF start % 2 = 0 THEN start + p ELSE start

\* The bit indices the marking loops clear: for every p of the base but the
\* first, idx = (start - seg_low) / 2 for start, start + 2p, ... <= seg_high
ClearedBits(seg_low, seg_high, base) ==
    {(m - seg_low) \div 2 :
        m \in {x \in seg_low..seg_high :
                 \E k \in 2..Len(base) :
                    LET p == base[k]
                        start == FirstOddMultiple(seg_low, p)
                    IN x >= start /\ (x - start) % (2 * p) = 0}}

\* Unpacking: every bit still set, lowest first, num = seg_low + 2*idx, kept
\* when num <= seg_high
SievedSegment(seg_low, seg_high, base) ==
    LET set_bits == (0..(segment_words * 64 - 1)) \ ClearedBits(seg_low, seg_high, base)
    IN SortedSeq({n \in {seg_low + 2 * idx : idx \in set_bits} : n <= seg_high})

\* The last multiple the marking loop of p clears in the segment, or 0 when
\* it clears none
LastMarked(seg_low, seg_high, p) ==
    LET start == FirstOddMultiple(seg_low, p)
    IN IF start > seg_high THEN 0
       ELSE start + ((seg_high - start) \div (2 * p)) * (2 * p)

\* primes.rs:785-805: a computation of the sieve of one segment leaves the
\* machine word: seg_low + SEGMENT_SIZE_NUMBERS - 1, seg_low + p - 1, the
\* first odd multiple, or the start += p * 2 after the last marked multiple
KernelOverflows(segment_idx, lo, lim, base) ==
    LET seg_low == SegLowOf(segment_idx, lo)
        seg_high == SegHighOf(segment_idx, lo, lim)
    IN \/ seg_low + SEGMENT_SIZE_NUMBERS - 1 > WordMax
       \/ \E k \in 2..Len(base) :
             \/ seg_low + base[k] - 1 > WordMax
             \/ FirstOddMultiple(seg_low, base[k]) > WordMax
             \/ /\ LastMarked(seg_low, seg_high, base[k]) > 0
                /\ LastMarked(seg_low, seg_high, base[k]) + 2 * base[k] > WordMax

\* Mutant of SegmentPrimes: the id is the index itself, not index + 1
SegmentPrimesUnshifted(segment_idx) ==
    [segment_id |-> segment_idx,
     primes |-> SievedSegment(SegLow(segment_idx), SegHigh(segment_idx), small_primes)]

\* The message a worker builds for a claimed index
SegmentPrimes(segment_idx) ==
    [segment_id |-> segment_idx + 1,
     primes |-> SievedSegment(SegLow(segment_idx), SegHigh(segment_idx), small_primes)]

\* Mutant of ConsumerIdx: the id is not shifted before the modulo
ConsumerIdxUnshifted(segment_id, num_consumers) == segment_id % num_consumers

\* Index into `senders` of the consumer a segment is routed to
ConsumerIdx(segment_id, num_consumers) == (segment_id - 1) % num_consumers

\* Mutant of FetchAdd: the increment is lost (a load followed by a store of the
\* same value)
FetchAddLost(cursor) == cursor

\* fetch_add(1): the new value of the cursor
FetchAdd(cursor) == cursor + 1

\* Mutant of HasRoom: the channel is unbounded (mpsc::channel)
HasRoomUnbounded(buffer) == TRUE

\* A SyncSender::send can complete: the bounded buffer has room
HasRoom(buffer) == Len(buffer) < CHANNEL_CAPACITY

\* Mutant of ReceiverAlive: a receiver outlives the return of its consumer
ReceiverNeverDropped(c) == TRUE

\* The receiver of consumer c exists: its thread has not returned
ReceiverAlive(c) == cpc[c] \in {"spawned", "recv", "loop", "wait", "poll"}

-----------------------------------------------------------------------------
(* storage.rs: save_primes_multi_consumer_binary *)

\* The values of a segment whose write_all succeeds
Written(primes) == IF io_ok THEN primes ELSE <<>>

\* process_segment: append the 8 bytes of every value whose write_all
\* succeeds (a failure is logged and the loop goes on); returns the new file
process_segment(bytes, primes) == bytes \o EncodeAll(Written(primes))

MapRemoveAll(m, ks) == [j \in DOMAIN m \ ks |-> m[j]]

\* BTreeMap::insert: an existing key's value is replaced
MapInsert(m, k, v) == (k :> v) @@ m

\* process_segment applied to the buffer's entries ids[i], ids[i+1], ... in
\* that order
RECURSIVE WriteSegments(_, _, _, _)
WriteSegments(bytes, buf, ids, i) ==
    IF i > Len(ids) THEN bytes
    ELSE WriteSegments(process_segment(bytes, buf[ids[i]]), buf, ids, i + 1)

\* The sum of local_count over the same entries
RECURSIVE CountSegments(_, _, _)
CountSegments(buf, ids, i) ==
    IF i > Len(ids) THEN 0
    ELSE Len(buf[ids[i]]) + CountSegments(buf, ids, i + 1)

\* The consumer's state after the entries `ids` were removed and written in
\* that order, next_expected_id having become `next`
AfterWriting(st, ids, next) ==
    [buf |-> MapRemoveAll(st.buf, SeqToSet(ids)),
     next |-> next,
     bytes |-> WriteSegments(st.bytes, st.buf, ids, 1),
     count |-> st.count + CountSegments(st.buf, ids, 1),
     flushed |-> st.flushed \o ids]

\* while let Some((_, seg)) = segment_buffer.pop_first() { ... }: every entry,
\* smallest key first
DrainRemaining(st) == AfterWriting(st, SortedSeq(DOMAIN st.buf), st.next)

\* The keys the in-order loop removes: next, next + n, ... while present
RECURSIVE ConsecutiveRun(_, _, _)
ConsecutiveRun(keys, next, num_consumers) ==
    IF next \in keys
    THEN <<next>> \o ConsecutiveRun(keys, next + num_consumers, num_consumers)
    ELSE <<>>

\* Mutant of NextExpectedAfter: the id advances only past a segment whose
\* write succeeded
NextExpectedAfterSuccess(next, num_consumers, k) ==
    IF io_ok THEN next + num_consumers * k ELSE next

\* Mutant of NextExpectedAfter: the id advances by one per segment
NextExpectedAfterByOne(next, num_consumers, k) == next + k

\* next_expected_id += num_consumers, once per segment the loop processed
NextExpectedAfter(next, num_consumers, k) == next + num_consumers * k

\* Mutant of FlushInOrder: whatever the buffer holds is written on arrival
FlushOnArrival(st, num_consumers) == DrainRemaining(st)

\* while let Some(seg) = segment_buffer.remove(&next_expected_id) {
\*     count += process_segment(..); next_expected_id += num_consumers; }
FlushInOrder(st, num_consumers) ==
    LET ids == ConsecutiveRun(DOMAIN st.buf, st.next, num_consumers)
    IN AfterWriting(st, ids, NextExpectedAfter(st.next, num_consumers, Len(ids)))

\* The body of `for segment_primes in rx`: insert, then flush in order
OnReceive(st, msg, num_consumers) ==
    FlushInOrder([st EXCEPT !.buf = MapInsert(st.buf, msg.segment_id, msg.primes)],
                 num_consumers)

ConsumerState(c) ==
    [buf |-> segment_buffer[c], next |-> next_expected_id[c], bytes |-> file[c],
     count |-> count[c], flushed |-> flushed[c]]

-----------------------------------------------------------------------------
(* Initial state: the command line has been parsed *)

\* The limits the runs are started with: one per segment-size step up to
\* MaxLimit, each three past a segment-size multiple, so that the last
\* segment overhangs the limit (the first, 3, is refused by main)
Limits == {n \in 0..MaxLimit : n % SEGMENT_SIZE_NUMBERS = 3}

Init ==
    /\ limit \in Limits
    /\ num_workers \in 1..MaxWorkers
    /\ consumers \in 1..MaxConsumers
    /\ mpc = "start"
    /\ sqrt_limit = 0
    /\ effective_limit = 0
    /\ low = 0
    /\ total_segments = 0
    /\ small_primes = <<>>
    /\ result = <<>>
    /\ next_segment = 0
    /\ wpc = [w \in Workers |-> "idle"]
    /\ wseg = [w \in Workers |-> [segment_id |-> 0, primes |-> <<>>]]
    /\ chan = [c \in Consumers |-> <<>>]
    /\ senders_alive = FALSE
    /\ cpc = [c \in Consumers |-> "idle"]
    /\ segment_buffer = [c \in Consumers |-> <<>>]
    /\ next_expected_id = [c \in Consumers |-> c]
    /\ count = [c \in Consumers |-> 0]
    /\ file = [c \in Consumers |-> <<>>]
    /\ small_file = <<>>
    /\ small_count = 0
    /\ total_received = 0
    /\ fpc = "off"
    /\ arg_text = <<>>
    /\ arg_num = 0
    /\ arg_base = 2
    /\ ret_bool = FALSE
    /\ ret_text = <<>>
    /\ io_ok = TRUE
    /\ dir = {}
    /\ removed = {}
    /\ sqes = <<>>
    /\ kernel = {}
    /\ cq = <<>>
    /\ offset = 0
    /\ submitted = 0
    /\ completed = 0
    /\ pending_buffers = <<>>
    /\ batch_count = 0
    /\ wait_left = 0
    /\ seen_failure = FALSE
    /\ late_submit = FALSE
    /\ total = 0
    /\ claimed = <<>>
    /\ sentCount = <<>>
    /\ flushed = [c \in Consumers |-> <<>>]
    /\ received = [c \in Consumers |-> <<>>]

-----------------------------------------------------------------------------
(* The main thread: main.rs, Commands::Primes with variation 9 *)

\* main.rs:202-227 and 293-359: the limit check, the channels and consumer
\* threads, and the entry into find_primes_v9_multi_consumers up to the spawn
\* of the workers (primes.rs:731-767)
MainStart ==
    /\ mpc = "start"
    /\ IF LimitTooSmall(limit)
       THEN /\ mpc' = "rejected"
            /\ UNCHANGED <<run, result, wpc, cpc, senders_alive, dir, removed>>
       ELSE LET sq == SqrtLimitOf(limit)
                lo == LowOf(sq)
                eff == EffectiveLimitOf(limit, lo)
            IN \/ \* a debug build: the rounding overflows and main panics
                  /\ EffectiveLimitOverflows(limit, lo)
                  /\ mpc' = "panicked"
                  /\ UNCHANGED <<run, result, wpc, cpc, senders_alive, dir, removed>>
               \/ /\ sqrt_limit' = sq
                  /\ dir' = cleanup_prime_files(dir)
                  /\ removed' = EntryNames(dir \ dir')
                  /\ low' = lo
                  /\ effective_limit' = eff
                  /\ cpc' = [c \in Consumers |-> "spawned"]
                  /\ result' = <<>>
                  /\ IF V9EarlyReturn(eff, lo, consumers)
                     THEN /\ mpc' = "save_small"
                          /\ senders_alive' = FALSE
                          /\ wpc' = wpc
                          /\ small_primes' = <<>>
                          /\ total_segments' = 0
                     ELSE /\ mpc' = "producing"
                          /\ senders_alive' = TRUE
                          /\ wpc' = [w \in Workers |-> "claim"]
                          /\ small_primes' = find_primes_v2(sq)
                          /\ total_segments' = TotalSegmentsOf(eff, lo)
    /\ UNCHANGED <<cli, io_ok, uring, calc, total_received, next_segment, wseg, chan, segment_buffer,
                   next_expected_id, count, file, small_file, small_count, total, claimed,
                   sentCount, flushed, received>>

\* Mutant of SendersAfterReturn: the caller keeps a sender
SendersKept == TRUE

\* Whether a SyncSender of the run survives the return of
\* find_primes_v9_multi_consumers: `senders` is owned by the function and every
\* clone by a worker closure, so none does
SendersAfterReturn == FALSE

\* primes.rs:840-843: thread::scope has joined every worker; the function
\* returns and drops `senders`
MainReturn ==
    /\ mpc = "producing"
    /\ \A w \in Workers : wpc[w] \in {"done", "panicked"}
    /\ senders_alive' = SendersAfterReturn
    /\ IF \E w \in Workers : wpc[w] = "panicked"
       THEN \* thread::scope passes the panic of a worker on to main
            mpc' = "panicked" /\ result' = result
       ELSE mpc' = "save_small" /\ result' = small_primes
    /\ UNCHANGED <<cli, env, uring, calc, total_received, run, next_segment, wpc, wseg, chan, cpc, segment_buffer,
                   next_expected_id, count, file, small_file, small_count, total, claimed,
                   sentCount, flushed, received>>

\* main.rs:365 and storage.rs:576-614: save_small_primes_binary
MainSaveSmall ==
    /\ mpc = "save_small"
    /\ small_file' = EncodeAll(Written(result))
    /\ small_count' = Len(result)
    /\ mpc' = "join"
    /\ dir' = Created(dir, SmallFileName)
    /\ UNCHANGED <<cli, io_ok, removed, uring, calc, total_received, run, result, next_segment, wpc, wseg, chan,
                   senders_alive, cpc, segment_buffer, next_expected_id, count,
                   file, total, claimed, sentCount, flushed, received>>

RECURSIVE SumCounts(_, _)
SumCounts(f, S) ==
    IF S = {} THEN 0
    ELSE LET c == CHOOSE x \in S : TRUE IN f[c] + SumCounts(f, S \ {c})

\* main.rs:367-383: join every consumer, add the counts up
MainJoin ==
    /\ mpc = "join"
    /\ \A c \in Consumers : cpc[c] \in {"done", "failed"}
    /\ total' = small_count + SumCounts(count, Consumers)
    /\ mpc' = "done"
    /\ UNCHANGED <<cli, env, uring, calc, total_received, run, result, next_segment, wpc, wseg, chan,
                   senders_alive, cpc, segment_buffer, next_expected_id, count,
                   file, small_file, small_count, claimed, sentCount, flushed, received>>

-----------------------------------------------------------------------------
(* A worker thread: primes.rs:780-837 *)

\* primes.rs:781-830: fetch_add, the exhaustion test, the sieve of the claimed
\* segment and the construction of its SegmentPrimes
WorkerClaim(w) ==
    /\ wpc[w] = "claim"
    /\ LET segment_idx == next_segment
       IN /\ next_segment' = FetchAdd(next_segment)
          /\ claimed' = Append(claimed, segment_idx)
          /\ IF segment_idx >= total_segments
             THEN /\ wpc' = [wpc EXCEPT ![w] = "done"]
                  /\ wseg' = wseg
             ELSE IF KernelOverflows(segment_idx, low, effective_limit, small_primes)
             THEN \* the overflow panics at once (debug) or wraps `start`
                  \* below seg_low, and clear_bit panics on the index
                  /\ wpc' = [wpc EXCEPT ![w] = "panicked"]
                  /\ wseg' = wseg
             ELSE /\ wpc' = [wpc EXCEPT ![w] = "send"]
                  /\ wseg' = [wseg EXCEPT ![w] = SegmentPrimes(segment_idx)]
    /\ UNCHANGED <<cli, env, uring, calc, total_received, run, result, mpc, chan, senders_alive, cpc,
                   segment_buffer, next_expected_id, count, file, small_file,
                   small_count, total, sentCount, flushed, received>>

\* The consumer whose channel the worker's segment goes to
Target(w) == ConsumerIdx(wseg[w].segment_id, consumers) + 1

\* primes.rs:833-834: send succeeds; it blocks while the channel is full
WorkerSend(w) ==
    /\ wpc[w] = "send"
    /\ ReceiverAlive(Target(w))
    /\ HasRoom(chan[Target(w)])
    /\ chan' = [chan EXCEPT ![Target(w)] = Append(@, wseg[w])]
    /\ sentCount' = (wseg[w].segment_id :>
                        (IF wseg[w].segment_id \in DOMAIN sentCount
                         THEN sentCount[wseg[w].segment_id] + 1 ELSE 1))
                    @@ sentCount
    /\ wpc' = [wpc EXCEPT ![w] = "claim"]
    /\ UNCHANGED <<cli, env, uring, calc, total_received, run, result, mpc, next_segment, wseg,
                   senders_alive, cpc, segment_buffer, next_expected_id, count,
                   file, small_file, small_count, total, claimed, flushed, received>>

\* primes.rs:834-836: send fails because the receiver is gone; the worker
\* leaves its loop
WorkerSendFail(w) ==
    /\ wpc[w] = "send"
    /\ ~ReceiverAlive(Target(w))
    /\ wpc' = [wpc EXCEPT ![w] = "done"]
    /\ UNCHANGED <<cli, env, uring, calc, total_received, run, result, mpc, next_segment, wseg, chan,
                   senders_alive, cpc, segment_buffer, next_expected_id, count,
                   file, small_file, small_count, total, claimed, sentCount, flushed, received>>

-----------------------------------------------------------------------------
(* A consumer thread: storage.rs:621-778 *)

\* create_dir_all and open succeed: the file is there and truncated
OpenAt(c, name) ==
    /\ cpc[c] = "spawned"
    /\ cpc' = [cpc EXCEPT ![c] = "recv"]
    /\ file' = [file EXCEPT ![c] = <<>>]
    /\ dir' = Created(dir, name)
    /\ UNCHANGED <<cli, io_ok, removed, uring, calc, total_received, run, result, mpc, next_segment, wpc, wseg,
                   chan, senders_alive, segment_buffer, next_expected_id, count,
                   small_file, small_count, total, claimed, sentCount, flushed, received>>

\* storage.rs:630-658
ConsumerOpen(c) == OpenAt(c, ConsumerFileName(c))

\* storage.rs:631-634 and 645-649: create_dir_all or open fails; the consumer
\* returns 0 and its Receiver is dropped with whatever the channel holds
ConsumerOpenFail(c) ==
    /\ cpc[c] = "spawned"
    /\ cpc' = [cpc EXCEPT ![c] = "failed"]
    /\ chan' = [chan EXCEPT ![c] = <<>>]
    /\ UNCHANGED <<cli, env, uring, calc, total_received, run, result, mpc, next_segment, wpc, wseg,
                   senders_alive, segment_buffer, next_expected_id, count, file,
                   small_file, small_count, total, claimed, sentCount, flushed,
                   received>>

\* storage.rs:682-695: one iteration of `for segment_primes in rx`
ConsumerRecv(c) ==
    /\ cpc[c] = "recv"
    /\ chan[c] # <<>>
    /\ \E st \in {OnReceive(ConsumerState(c), Head(chan[c]), consumers)} :
          /\ segment_buffer' = [segment_buffer EXCEPT ![c] = st.buf]
          /\ next_expected_id' = [next_expected_id EXCEPT ![c] = st.next]
          /\ file' = [file EXCEPT ![c] = st.bytes]
          /\ count' = [count EXCEPT ![c] = st.count]
          /\ flushed' = [flushed EXCEPT ![c] = st.flushed]
    /\ total_received' = FetchAdd(total_received)
    /\ received' = [received EXCEPT ![c] = Append(@, Head(chan[c]).segment_id)]
    /\ chan' = [chan EXCEPT ![c] = Tail(@)]
    /\ UNCHANGED <<cli, env, uring, calc, run, result, mpc, next_segment, wpc, wseg,
                   senders_alive, cpc, small_file, small_count, total, claimed,
                   sentCount>>

\* storage.rs:764-777: the channel is empty and every sender is gone; the
\* remaining entries are written and the count is returned
ConsumerClose(c) ==
    /\ cpc[c] = "recv"
    /\ chan[c] = <<>>
    /\ ~senders_alive
    /\ \E st \in {DrainRemaining(ConsumerState(c))} :
          /\ segment_buffer' = [segment_buffer EXCEPT ![c] = st.buf]
          /\ file' = [file EXCEPT ![c] = st.bytes]
          /\ count' = [count EXCEPT ![c] = st.count]
          /\ flushed' = [flushed EXCEPT ![c] = st.flushed]
    /\ cpc' = [cpc EXCEPT ![c] = "done"]
    /\ UNCHANGED <<cli, env, uring, calc, total_received, run, result, mpc, next_segment, wpc, wseg,
                   chan, senders_alive, next_expected_id, small_file, small_count,
                   total,
                   claimed, sentCount, received>>

-----------------------------------------------------------------------------

Next ==
    \/ MainStart
    \/ MainReturn
    \/ MainSaveSmall
    \/ MainJoin
    \/ \E w \in Workers : WorkerClaim(w)
    \/ \E w \in Workers : WorkerSend(w)
    \/ \E w \in Workers : WorkerSendFail(w)
    \/ \E c \in Consumers : ConsumerOpen(c)
    \/ \E c \in Consumers : ConsumerOpenFail(c)
    \/ \E c \in Consumers : ConsumerRecv(c)
    \/ \E c \in Consumers : ConsumerClose(c)

Spec == Init /\ [][Next]_vars

-----------------------------------------------------------------------------
(* The pipeline with one worker and one consumer, for every limit of the     *)
(* machine word: what the sieve of a segment produces, and where its         *)
(* arithmetic leaves the word                                                *)

SieveInit ==
    /\ limit \in 0..WordMax
    /\ num_workers = 1
    /\ consumers = 1
    /\ mpc = "start"
    /\ sqrt_limit = 0
    /\ effective_limit = 0
    /\ low = 0
    /\ total_segments = 0
    /\ small_primes = <<>>
    /\ result = <<>>
    /\ next_segment = 0
    /\ wpc = [w \in Workers |-> "idle"]
    /\ wseg = [w \in Workers |-> [segment_id |-> 0, primes |-> <<>>]]
    /\ chan = [c \in Consumers |-> <<>>]
    /\ senders_alive = FALSE
    /\ cpc = [c \in Consumers |-> "idle"]
    /\ segment_buffer = [c \in Consumers |-> <<>>]
    /\ next_expected_id = [c \in Consumers |-> c]
    /\ count = [c \in Consumers |-> 0]
    /\ file = [c \in Consumers |-> <<>>]
    /\ small_file = <<>>
    /\ small_count = 0
    /\ total_received = 0
    /\ fpc = "off"
    /\ arg_text = <<>>
    /\ arg_num = 0
    /\ arg_base = 2
    /\ ret_bool = FALSE
    /\ ret_text = <<>>
    /\ io_ok = TRUE
    /\ dir = {}
    /\ removed = {}
    /\ sqes = <<>>
    /\ kernel = {}
    /\ cq = <<>>
    /\ offset = 0
    /\ submitted = 0
    /\ completed = 0
    /\ pending_buffers = <<>>
    /\ batch_count = 0
    /\ wait_left = 0
    /\ seen_failure = FALSE
    /\ late_submit = FALSE
    /\ total = 0
    /\ claimed = <<>>
    /\ sentCount = <<>>
    /\ flushed = [c \in Consumers |-> <<>>]
    /\ received = [c \in Consumers |-> <<>>]

SieveSpec == SieveInit /\ [][Next]_vars

-----------------------------------------------------------------------------
(* Failures of the file system *)

\* Everything but the environment
program == <<limit, num_workers, consumers, total_received, run, result, mpc, next_segment,
             wpc, wseg, chan, senders_alive, cpc, segment_buffer,
             next_expected_id, count, file, small_file, small_count, total,
             claimed, sentCount, flushed, received>>

\* From now on write_all returns Err (the disk is full, the device is gone)
IoFails ==
    /\ io_ok
    /\ io_ok' = FALSE
    /\ UNCHANGED <<program, uring, calc, dir, removed>>

\* From now on write_all succeeds again
IoRecovers ==
    /\ ~io_ok
    /\ io_ok' = TRUE
    /\ UNCHANGED <<program, uring, calc, dir, removed>>

\* storage.rs:577-595: create_dir_all or open of primes_small.bin fails;
\* save_small_primes_binary returns 0
MainSaveSmallFail ==
    /\ mpc = "save_small"
    /\ small_count' = 0
    /\ mpc' = "join"
    /\ UNCHANGED <<cli, env, uring, calc, total_received, run, result, next_segment, wpc, wseg, chan,
                   senders_alive, cpc, segment_buffer, next_expected_id, count,
                   file, small_file, total, claimed, sentCount, flushed,
                   received>>

IoNext ==
    \/ Next
    \/ IoFails
    \/ IoRecovers
    \/ MainSaveSmallFail

IoSpec == Init /\ [][IoNext]_vars

-----------------------------------------------------------------------------
(* One variation-9 run after another over the same data directory           *)

\* An accepted limit and a refused one
DirLimits == {SEGMENT_SIZE_NUMBERS - 1, MaxLimit}

\* What earlier use can have left in the directory: the file of a binary
\* variation-8 run, and an entry named like the file of a consumer beyond
\* MaxConsumers that remove_file cannot remove
Leftovers ==
    {[name |-> V8BinFileName, removable |-> TRUE],
     [name |-> ConsumerFileName(MaxConsumers + 1), removable |-> FALSE]}

\* The state of a process just started with the arguments l, w and k
Started(l, w, k) ==
    /\ limit' = l
    /\ num_workers' = w
    /\ consumers' = k
    /\ mpc' = "start"
    /\ sqrt_limit' = 0
    /\ effective_limit' = 0
    /\ low' = 0
    /\ total_segments' = 0
    /\ small_primes' = <<>>
    /\ result' = <<>>
    /\ next_segment' = 0
    /\ wpc' = [x \in 1..w |-> "idle"]
    /\ wseg' = [x \in 1..w |-> [segment_id |-> 0, primes |-> <<>>]]
    /\ chan' = [c \in 1..k |-> <<>>]
    /\ senders_alive' = FALSE
    /\ cpc' = [c \in 1..k |-> "idle"]
    /\ segment_buffer' = [c \in 1..k |-> <<>>]
    /\ next_expected_id' = [c \in 1..k |-> c]
    /\ count' = [c \in 1..k |-> 0]
    /\ file' = [c \in 1..k |-> <<>>]
    /\ small_file' = <<>>
    /\ small_count' = 0
    /\ total_received' = 0
    /\ total' = 0
    /\ claimed' = <<>>
    /\ sentCount' = <<>>
    /\ flushed' = [c \in 1..k |-> <<>>]
    /\ received' = [c \in 1..k |-> <<>>]

DirInit ==
    /\ limit \in DirLimits
    /\ num_workers = 1
    /\ consumers \in 1..MaxConsumers
    /\ mpc = "start"
    /\ sqrt_limit = 0
    /\ effective_limit = 0
    /\ low = 0
    /\ total_segments = 0
    /\ small_primes = <<>>
    /\ result = <<>>
    /\ next_segment = 0
    /\ wpc = [w \in Workers |-> "idle"]
    /\ wseg = [w \in Workers |-> [segment_id |-> 0, primes |-> <<>>]]
    /\ chan = [c \in Consumers |-> <<>>]
    /\ senders_alive = FALSE
    /\ cpc = [c \in Consumers |-> "idle"]
    /\ segment_buffer = [c \in Consumers |-> <<>>]
    /\ next_expected_id = [c \in Consumers |-> c]
    /\ count = [c \in Consumers |-> 0]
    /\ file = [c \in Consumers |-> <<>>]
    /\ small_file = <<>>
    /\ small_count = 0
    /\ total_received = 0
    /\ fpc = "off"
    /\ arg_text = <<>>
    /\ arg_num = 0
    /\ arg_base = 2
    /\ ret_bool = FALSE
    /\ ret_text = <<>>
    /\ io_ok = TRUE
    /\ dir \in SUBSET Leftovers
    /\ removed = {}
    /\ sqes = <<>>
    /\ kernel = {}
    /\ cq = <<>>
    /\ offset = 0
    /\ submitted = 0
    /\ completed = 0
    /\ pending_buffers = <<>>
    /\ batch_count = 0
    /\ wait_left = 0
    /\ seen_failure = FALSE
    /\ late_submit = FALSE
    /\ total = 0
    /\ claimed = <<>>
    /\ sentCount = <<>>
    /\ flushed = [c \in Consumers |-> <<>>]
    /\ received = [c \in Consumers |-> <<>>]

\* The process has ended (it returned, refused the limit or panicked) and the
\* command is invoked again; the directory is what the last process left
NextRun ==
    /\ mpc \in {"done", "rejected", "panicked"}
    /\ \E l \in DirLimits, k \in 1..MaxConsumers : Started(l, 1, k)
    /\ UNCHANGED <<env, uring, calc>>

DirNext ==
    \/ Next
    \/ NextRun

DirSpec == DirInit /\ [][DirNext]_vars

\* Every thread is an OS thread and keeps being scheduled, so the program never
\* halts while some thread has a step it can take.  (Weak fairness of Next is
\* implied by weak fairness of each thread's steps.)
FairSpec == Spec /\ WF_vars(Next)

-----------------------------------------------------------------------------
(* A consumer run on its own: the functions of storage.rs and                *)
(* storage_uring.rs take any Receiver<SegmentPrimes>, so here the sending    *)
(* side is free to send any ids in any order and to close at any time.       *)

\* One consumer of `consumers` has been spawned for the segments of the
\* limit MaxLimit; the senders are held by the environment
HarnessInit ==
    /\ limit = MaxLimit
    /\ num_workers = 1
    /\ consumers \in 1..MaxConsumers
    /\ mpc = "harness"
    /\ sqrt_limit = SqrtLimitOf(limit)
    /\ low = LowOf(sqrt_limit)
    /\ effective_limit = EffectiveLimitOf(limit, low)
    /\ total_segments = TotalSegmentsOf(effective_limit, low)
    /\ small_primes = find_primes_v2(sqrt_limit)
    /\ result = <<>>
    /\ next_segment = 0
    /\ wpc = [w \in Workers |-> "idle"]
    /\ wseg = [w \in Workers |-> [segment_id |-> 0, primes |-> <<>>]]
    /\ chan = [c \in Consumers |-> <<>>]
    /\ senders_alive = TRUE
    /\ \E t \in Consumers :
          cpc = [c \in Consumers |-> IF c = t THEN "spawned" ELSE "idle"]
    /\ segment_buffer = [c \in Consumers |-> <<>>]
    /\ next_expected_id = [c \in Consumers |-> c]
    /\ count = [c \in Consumers |-> 0]
    /\ file = [c \in Consumers |-> <<>>]
    /\ small_file = <<>>
    /\ small_count = 0
    /\ total_received = 0
    /\ fpc = "off"
    /\ arg_text = <<>>
    /\ arg_num = 0
    /\ arg_base = 2
    /\ ret_bool = FALSE
    /\ ret_text = <<>>
    /\ io_ok = TRUE
    /\ dir = {}
    /\ removed = {}
    /\ sqes = <<>>
    /\ kernel = {}
    /\ cq = <<>>
    /\ offset = 0
    /\ submitted = 0
    /\ completed = 0
    /\ pending_buffers = <<>>
    /\ batch_count = 0
    /\ wait_left = 0
    /\ seen_failure = FALSE
    /\ late_submit = FALSE
    /\ total = 0
    /\ claimed = <<>>
    /\ sentCount = <<>>
    /\ flushed = [c \in Consumers |-> <<>>]
    /\ received = [c \in Consumers |-> <<>>]

\* What the actions of the sending side leave alone
sender_frame == <<cli, env, uring, calc, total_received, run, result, mpc, next_segment, wpc, wseg,
                  cpc, segment_buffer, next_expected_id, count, file,
                  small_file, small_count, total, claimed, sentCount, flushed,
                  received>>

\* A sender hands consumer c the segment with the given id
EnvSend(c, id) ==
    /\ mpc = "harness"
    /\ senders_alive
    /\ ReceiverAlive(c)
    /\ HasRoom(chan[c])
    /\ Len(received[c]) + Len(chan[c]) < MaxSends
    /\ chan' = [chan EXCEPT ![c] = Append(@, SegmentPrimes(id - 1))]
    /\ senders_alive' = senders_alive
    /\ UNCHANGED sender_frame

\* The last sender is dropped
EnvClose ==
    /\ mpc = "harness"
    /\ senders_alive
    /\ senders_alive' = FALSE
    /\ chan' = chan
    /\ UNCHANGED sender_frame

\* save_primes_multi_consumer_binary on its own
UnitNext ==
    \/ \E c \in Consumers, id \in 1..total_segments : EnvSend(c, id)
    \/ EnvClose
    \/ \E c \in Consumers : ConsumerOpen(c)
    \/ \E c \in Consumers : ConsumerOpenFail(c)
    \/ \E c \in Consumers : ConsumerRecv(c)
    \/ \E c \in Consumers : ConsumerClose(c)

UnitSpec == HarnessInit /\ [][UnitNext]_vars

-----------------------------------------------------------------------------
(* storage_uring.rs: UringBatchWriter and save_primes_multi_consumer_uring,  *)
(* run on its own.  A write is [id, consumer, offset, data]; id is its       *)
(* number in submission order and names its buffer in pending_buffers.       *)

\* Mutant of in_flight: at most one write is taken to be outstanding
InFlightAtMostOne == Min(submitted - completed, 1)

\* storage_uring.rs:105-108
in_flight == submitted - completed

\* ring.submit(): the kernel takes every queued entry
Submitted(queue) == kernel \cup SeqToSet(queue)

\* What a write leaves in the file: data at positions offset+1.., a hole
\* before it reads as zeros
WriteAt(bytes, off, data) ==
    [i \in 1..(IF Len(bytes) > off + Len(data) THEN Len(bytes)
                ELSE off + Len(data)) |->
        IF i > off /\ i <= off + Len(data) THEN data[i - off]
        ELSE IF i <= Len(bytes) THEN bytes[i] ELSE 0]

\* What the kernel can read from the buffer of a write: the data while the
\* buffer is in pending_buffers; after pop_front has dropped it the memory is
\* freed and its content is whatever the allocator left there
Garbage(len) == [i \in 1..len |-> 255]

BufferContent(op) ==
    IF op.id \in SeqToSet(pending_buffers) THEN {op.data}
    ELSE {op.data, Garbage(Len(op.data))}

\* Mutant of PopFront: the buffer is kept
PopFrontKept(q) == q

\* pending_buffers.pop_front()
PopFront(q) == IF q = <<>> THEN q ELSE Tail(q)

\* Mutant of QueueFull: a submission queue of one entry
QueueFullAtOne(queue) == Len(queue) >= 1

\* storage_uring.rs:49-55: push fails when the submission queue, of
\* QUEUE_DEPTH entries, has no free entry
QueueFull(queue) == Len(queue) >= QUEUE_DEPTH

\* storage_uring.rs:181-187: one message is received and inserted
UringRecv(c) ==
    /\ cpc[c] = "recv"
    /\ chan[c] # <<>>
    /\ segment_buffer' = [segment_buffer EXCEPT ![c] =
            MapInsert(@, Head(chan[c]).segment_id, Head(chan[c]).primes)]
    /\ total_received' = FetchAdd(total_received)
    /\ received' = [received EXCEPT ![c] = Append(@, Head(chan[c]).segment_id)]
    /\ chan' = [chan EXCEPT ![c] = Tail(@)]
    /\ cpc' = [cpc EXCEPT ![c] = "loop"]
    /\ UNCHANGED <<cli, env, uring, calc, run, result, mpc, next_segment, wpc, wseg,
                   senders_alive, next_expected_id, count, file, small_file,
                   small_count, total, claimed, sentCount, flushed>>

\* storage_uring.rs:190-223: one iteration of the in-order loop up to the
\* backpressure test: remove, encode, count, submit_write, the periodic
\* submit_batch, and the entry into wait_completions (whose submit_and_wait
\* submits what is queued)
UringLoop(c) ==
    /\ cpc[c] = "loop"
    /\ IF next_expected_id[c] \notin DOMAIN segment_buffer[c]
       THEN /\ cpc' = [cpc EXCEPT ![c] = "recv"]
            /\ UNCHANGED <<segment_buffer, count, uring, next_expected_id, flushed>>
       ELSE LET id == next_expected_id[c]
                data == EncodeAll(segment_buffer[c][id])
                op == [id |-> submitted + 1, consumer |-> c,
                       offset |-> offset, data |-> data]
                queued == Append(sqes, op)
                batch == batch_count + 1
                waits == submitted + 1 - completed > MAX_IN_FLIGHT
            IN /\ segment_buffer' = [segment_buffer EXCEPT ![c] = MapRemoveAll(@, {id})]
               /\ count' = [count EXCEPT ![c] = @ + Len(segment_buffer[c][id])]
               /\ IF QueueFull(sqes)
                  THEN \* submit_write fails: break
                       /\ cpc' = [cpc EXCEPT ![c] = "recv"]
                       /\ UNCHANGED <<uring, next_expected_id, flushed>>
                  ELSE /\ pending_buffers' = Append(pending_buffers, op.id)
                       /\ offset' = offset + Len(data)
                       /\ submitted' = submitted + 1
                       /\ late_submit' = (late_submit \/ seen_failure)
                       /\ next_expected_id' = [next_expected_id EXCEPT ![c] = @ + consumers]
                       /\ flushed' = [flushed EXCEPT ![c] = Append(@, id)]
                       /\ batch_count' = IF batch >= BATCH_SIZE THEN 0 ELSE batch
                       /\ IF batch >= BATCH_SIZE \/ waits
                          THEN kernel' = Submitted(queued) /\ sqes' = <<>>
                          ELSE kernel' = kernel /\ sqes' = queued
                       /\ wait_left' = IF waits THEN WAIT_BATCH ELSE wait_left
                       /\ cpc' = [cpc EXCEPT ![c] = IF waits THEN "wait" ELSE "poll"]
                       /\ UNCHANGED <<cq, completed, seen_failure>>
    /\ UNCHANGED <<cli, env, calc, total_received, run, result, mpc, next_segment, wpc, wseg, chan,
                   senders_alive, file, small_file, small_count, total,
                   claimed, sentCount, received>>

\* storage_uring.rs:88-103: one iteration of wait_completions, in the loop
\* (line 219) or after it (line 272); it blocks until a completion is there.
\* A failed completion ends the call: the loop is left by `break`, the final
\* wait is only logged
UringWait(c) ==
    /\ cpc[c] \in {"wait", "final_wait"}
    /\ cq # <<>>
    /\ cq' = Tail(cq)
    /\ IF Head(cq)
       THEN /\ pending_buffers' = PopFront(pending_buffers)
            /\ completed' = completed + 1
            /\ wait_left' = wait_left - 1
            /\ seen_failure' = seen_failure
            /\ cpc' = [cpc EXCEPT ![c] =
                    IF wait_left > 1 THEN @
                    ELSE IF @ = "wait" THEN "poll" ELSE "done"]
       ELSE /\ seen_failure' = TRUE
            /\ cpc' = [cpc EXCEPT ![c] = IF @ = "wait" THEN "recv" ELSE "done"]
            /\ UNCHANGED <<pending_buffers, completed, wait_left>>
    /\ UNCHANGED <<cli, env, calc, total_received, sqes, kernel, offset, submitted, batch_count,
                   late_submit, run, result, mpc, next_segment, wpc, wseg, chan,
                   senders_alive, segment_buffer, next_expected_id, count,
                   file, small_file, small_count, total, claimed, sentCount,
                   flushed, received>>

\* The completions poll_completions takes before it stops: all of them, or
\* those before the first failed one
OkPrefix(q) ==
    IF \E i \in 1..Len(q) : ~q[i]
    THEN (CHOOSE i \in 1..Len(q) : ~q[i] /\ \A j \in 1..(i - 1) : q[j]) - 1
    ELSE Len(q)

RECURSIVE PopFrontTimes(_, _)
PopFrontTimes(q, k) == IF k = 0 THEN q ELSE PopFrontTimes(PopFront(q), k - 1)

\* storage_uring.rs:225-230 and 72-85: poll_completions; on a failed
\* completion the consumer calls std::process::exit(1)
UringPoll(c) ==
    /\ cpc[c] = "poll"
    /\ LET k == OkPrefix(cq)
       IN /\ completed' = completed + k
          /\ pending_buffers' = PopFrontTimes(pending_buffers, k)
          /\ IF k < Len(cq)
             THEN /\ cq' = SubSeq(cq, k + 2, Len(cq))
                  /\ seen_failure' = TRUE
                  /\ cpc' = [cpc EXCEPT ![c] = "exited"]
             ELSE /\ cq' = <<>>
                  /\ seen_failure' = seen_failure
                  /\ cpc' = [cpc EXCEPT ![c] = "loop"]
    /\ UNCHANGED <<cli, env, calc, total_received, sqes, kernel, offset, submitted, batch_count,
                   wait_left, late_submit, run, result, mpc, next_segment, wpc,
                   wseg, chan, senders_alive, segment_buffer, next_expected_id,
                   count, file, small_file, small_count, total, claimed,
                   sentCount, flushed, received>>

\* storage_uring.rs:264-282: the channel is empty and closed; the final
\* submit_batch, then the wait for whatever is in flight
UringClose(c) ==
    /\ cpc[c] = "recv"
    /\ chan[c] = <<>>
    /\ ~senders_alive
    /\ kernel' = Submitted(sqes)
    /\ sqes' = <<>>
    /\ wait_left' = in_flight
    /\ cpc' = [cpc EXCEPT ![c] = IF in_flight > 0 THEN "final_wait" ELSE "done"]
    /\ UNCHANGED <<cli, env, calc, total_received, cq, offset, submitted, completed, pending_buffers,
                   batch_count, seen_failure, late_submit, run, result, mpc,
                   next_segment, wpc, wseg, chan, senders_alive, segment_buffer,
                   next_expected_id, count, file, small_file, small_count,
                   total, claimed, sentCount, flushed, received>>

\* The kernel carries a write out, in any order: it reads the buffer, writes
\* at the offset of the entry and posts the completion
KernelComplete(op) ==
    /\ op \in kernel
    /\ kernel' = kernel \ {op}
    /\ cq' = Append(cq, io_ok)
    /\ IF io_ok
       THEN \E data \in BufferContent(op) :
               file' = [file EXCEPT ![op.consumer] = WriteAt(@, op.offset, data)]
       ELSE file' = file
    /\ UNCHANGED <<cli, env, calc, total_received, sqes, offset, submitted, completed,
                   pending_buffers, batch_count, wait_left, seen_failure,
                   late_submit, run, result, mpc, next_segment, wpc, wseg, chan,
                   senders_alive, cpc, segment_buffer, next_expected_id, count,
                   small_file, small_count, total, claimed, sentCount, flushed,
                   received>>

UringNext ==
    \/ \E c \in Consumers, id \in 1..total_segments : EnvSend(c, id)
    \/ EnvClose
    \/ IoFails
    \/ IoRecovers
    \/ \E c \in Consumers : ConsumerOpen(c)
    \/ \E c \in Consumers : ConsumerOpenFail(c)
    \/ \E c \in Consumers : UringRecv(c)
    \/ \E c \in Consumers : UringLoop(c)
    \/ \E c \in Consumers : UringWait(c)
    \/ \E c \in Consumers : UringPoll(c)
    \/ \E c \in Consumers : UringClose(c)
    \/ \E op \in kernel : KernelComplete(op)

UringSpec == HarnessInit /\ [][UringNext]_vars

\* The io_uring consumer on a file system whose writes all succeed
UringOkNext ==
    \/ \E c \in Consumers, id \in 1..total_segments : EnvSend(c, id)
    \/ EnvClose
    \/ \E c \in Consumers : ConsumerOpen(c)
    \/ \E c \in Consumers : ConsumerOpenFail(c)
    \/ \E c \in Consumers : UringRecv(c)
    \/ \E c \in Consumers : UringLoop(c)
    \/ \E c \in Consumers : UringWait(c)
    \/ \E c \in Consumers : UringPoll(c)
    \/ \E c \in Consumers : UringClose(c)
    \/ \E op \in kernel : KernelComplete(op)

UringOkSpec == HarnessInit /\ [][UringOkNext]_vars

\* The id a single worker sends consumer c next: its ids in claim order
NextToSend(c) == c + consumers * (Len(received[c]) + Len(chan[c]))

\* primes.rs:781-834 with one worker: the segments reach the consumer in the
\* order of their ids
EnvSendInOrder(c) ==
    /\ NextToSend(c) <= total_segments
    /\ EnvSend(c, NextToSend(c))

\* The io_uring consumer fed in id order, on a file system whose writes may
\* fail
WriterNext ==
    \/ \E c \in Consumers : EnvSendInOrder(c)
    \/ EnvClose
    \/ IoFails
    \/ IoRecovers
    \/ \E c \in Consumers : ConsumerOpen(c)
    \/ \E c \in Consumers : ConsumerOpenFail(c)
    \/ \E c \in Consumers : UringRecv(c)
    \/ \E c \in Consumers : UringLoop(c)
    \/ \E c \in Consumers : UringWait(c)
    \/ \E c \in Consumers : UringPoll(c)
    \/ \E c \in Consumers : UringClose(c)
    \/ \E op \in kernel : KernelComplete(op)

WriterSpec == HarnessInit /\ [][WriterNext]_vars

-----------------------------------------------------------------------------
(* primes_bases.rs: to_base and is_palindrome, applied on their own.  A       *)
(* string is the sequence of the codes of its characters.                     *)

\* The largest base the table asks to_base for: (2..=62)
MaxBase == 62

Reverse(s) == [i \in 1..Len(s) |-> s[Len(s) + 1 - i]]

\* The character of a digit: '0' + digit, 'A' + digit - 10 or 'a' + digit - 36,
\* computed in u8
DigitChar(digit) ==
    IF digit < 10 THEN ((digit % 256) + 48) % 256
    ELSE IF digit < 36 THEN ((digit % 256) - 10 + 65) % 256
    ELSE ((digit % 256) - 36 + 97) % 256

\* while num > 0 { digits.push(char of num % base); num /= base; }
RECURSIVE PushDigits(_, _)
PushDigits(n, b) ==
    IF n > 0 THEN <<DigitChar(n % b)>> \o PushDigits(n \div b, b) ELSE <<>>

\* Mutant of to_base: digits.reverse() is missing
ToBaseUnreversed(n, b) ==
    IF n = 0 THEN <<48>> ELSE PushDigits(n, b)

\* primes_bases.rs:101-122
to_base(n, b) ==
    IF n = 0 THEN <<48>> ELSE Reverse(PushDigits(n, b))

\* for i in 0..len / 2 { if chars[i] != chars[len - 1 - i] { return false; } }
\* from the 0-based index i on
RECURSIVE MirrorFrom(_, _)
MirrorFrom(chars, i) ==
    IF i >= Len(chars) \div 2 THEN TRUE
    ELSE IF chars[i + 1] # chars[Len(chars) - i] THEN FALSE
    ELSE MirrorFrom(chars, i + 1)

\* Mutant of is_palindrome: the test len <= 1 is missing
IsPalindromeAnyLength(chars) == MirrorFrom(chars, 0)

\* primes_bases.rs:124-139
is_palindrome(chars) ==
    IF Len(chars) <= 1 THEN FALSE ELSE MirrorFrom(chars, 0)

\* The characters the arguments of is_palindrome are made of: 'A', 'a', 'b'
Chars == {65, 97, 98}

RECURSIVE TextsOfLen(_)
TextsOfLen(n) ==
    IF n = 0 THEN {<<>>}
    ELSE {Append(t, ch) : t \in TextsOfLen(n - 1), ch \in Chars}

Texts == UNION {TextsOfLen(n) : n \in 0..MaxTextLen}

\* One call is about to be made: is_palindrome of a text, or to_base of a
\* number and a base; no pipeline is running
CalcInit ==
    /\ \/ /\ fpc = "text"
          /\ arg_text \in Texts
          /\ arg_num = 0
          /\ arg_base = 2
       \/ /\ fpc = "num"
          /\ arg_text = <<>>
          /\ arg_num \in 0..MaxNum
          /\ arg_base \in 2..MaxBase
    /\ ret_bool = FALSE
    /\ ret_text = <<>>
    /\ limit = 0
    /\ num_workers = 1
    /\ consumers = 1
    /\ mpc = "calc"
    /\ sqrt_limit = 0
    /\ effective_limit = 0
    /\ low = 0
    /\ total_segments = 0
    /\ small_primes = <<>>
    /\ result = <<>>
    /\ next_segment = 0
    /\ wpc = [w \in Workers |-> "idle"]
    /\ wseg = [w \in Workers |-> [segment_id |-> 0, primes |-> <<>>]]
    /\ chan = [c \in Consumers |-> <<>>]
    /\ senders_alive = FALSE
    /\ cpc = [c \in Consumers |-> "idle"]
    /\ segment_buffer = [c \in Consumers |-> <<>>]
    /\ next_expected_id = [c \in Consumers |-> c]
    /\ count = [c \in Consumers |-> 0]
    /\ file = [c \in Consumers |-> <<>>]
    /\ small_file = <<>>
    /\ small_count = 0
    /\ total_received = 0
    /\ io_ok = TRUE
    /\ dir = {}
    /\ removed = {}
    /\ sqes = <<>>
    /\ kernel = {}
    /\ cq = <<>>
    /\ offset = 0
    /\ submitted = 0
    /\ completed = 0
    /\ pending_buffers = <<>>
    /\ batch_count = 0
    /\ wait_left = 0
    /\ seen_failure = FALSE
    /\ late_submit = FALSE
    /\ total = 0
    /\ claimed = <<>>
    /\ sentCount = <<>>
    /\ flushed = [c \in Consumers |-> <<>>]
    /\ received = [c \in Consumers |-> <<>>]

\* is_palindrome(&text)
CallIsPalindrome ==
    /\ fpc = "text"
    /\ ret_bool' = is_palindrome(arg_text)
    /\ fpc' = "is_palindrome"
    /\ UNCHANGED <<arg_text, arg_num, arg_base, ret_text, env, uring, program>>

\* to_base(num, base)
CallToBase ==
    /\ fpc = "num"
    /\ ret_text' = to_base(arg_num, arg_base)
    /\ fpc' = "to_base"
    /\ UNCHANGED <<arg_text, arg_num, arg_base, ret_bool, env, uring, program>>

CalcNext == CallIsPalindrome \/ CallToBase

CalcSpec == CalcInit /\ [][CalcNext]_vars

-----------------------------------------------------------------------------
(* Variation 8: find_primes_v8_parallel (primes.rs:603-719) feeding the one   *)
(* consumer save_primes_streaming_segments_parallel (storage.rs:347-439)      *)
(* through an unbounded mpsc::channel.  The consumer is consumer 1.           *)

\* itoa::Buffer::format: the decimal digits of a number
ItoaFormat(n) == to_base(n, 10)

\* storage.rs:393-396: every value in decimal, each followed by '\n'
RECURSIVE FormatLines(_)
FormatLines(values) ==
    IF values = <<>> THEN <<>>
    ELSE ItoaFormat(Head(values)) \o <<10>> \o FormatLines(Tail(values))

\* storage.rs:380-405: the text consumer's process_segment: one write_all
\* for the whole segment, a failure is logged
process_segment_text(bytes, primes) ==
    IF io_ok THEN bytes \o FormatLines(primes) ELSE bytes

RECURSIVE WriteSegmentsText(_, _, _, _)
WriteSegmentsText(bytes, buf, ids, i) ==
    IF i > Len(ids) THEN bytes
    ELSE WriteSegmentsText(process_segment_text(bytes, buf[ids[i]]), buf, ids, i + 1)

\* The command line of a run of variation 8 has been parsed
V8Init ==
    /\ limit \in Limits
    /\ num_workers \in 1..MaxWorkers
    /\ consumers = 1
    /\ mpc = "start_v8"
    /\ sqrt_limit = 0
    /\ effective_limit = 0
    /\ low = 0
    /\ total_segments = 0
    /\ small_primes = <<>>
    /\ result = <<>>
    /\ next_segment = 0
    /\ wpc = [w \in Workers |-> "idle"]
    /\ wseg = [w \in Workers |-> [segment_id |-> 0, primes |-> <<>>]]
    /\ chan = [c \in Consumers |-> <<>>]
    /\ senders_alive = FALSE
    /\ cpc = [c \in Consumers |-> "idle"]
    /\ segment_buffer = [c \in Consumers |-> <<>>]
    /\ next_expected_id = [c \in Consumers |-> 0]
    /\ count = [c \in Consumers |-> 0]
    /\ file = [c \in Consumers |-> <<>>]
    /\ small_file = <<>>
    /\ small_count = 0
    /\ total_received = 0
    /\ fpc = "off"
    /\ arg_text = <<>>
    /\ arg_num = 0
    /\ arg_base = 2
    /\ ret_bool = FALSE
    /\ ret_text = <<>>
    /\ io_ok = TRUE
    /\ dir = {}
    /\ removed = {}
    /\ sqes = <<>>
    /\ kernel = {}
    /\ cq = <<>>
    /\ offset = 0
    /\ submitted = 0
    /\ completed = 0
    /\ pending_buffers = <<>>
    /\ batch_count = 0
    /\ wait_left = 0
    /\ seen_failure = FALSE
    /\ late_submit = FALSE
    /\ total = 0
    /\ claimed = <<>>
    /\ sentCount = <<>>
    /\ flushed = [c \in Consumers |-> <<>>]
    /\ received = [c \in Consumers |-> <<>>]

\* main.rs:202-218 and 265-288: the limit check, the channel, the consumer
\* thread, and the entry into find_primes_v8_parallel up to the small primes
\* (primes.rs:609-614)
V8Start ==
    /\ mpc = "start_v8"
    /\ IF LimitTooSmall(limit)
       THEN /\ mpc' = "rejected"
            /\ UNCHANGED <<run, cpc, senders_alive>>
       ELSE LET sq == SqrtLimitOf(limit)
                lo == LowOf(sq)
                eff == EffectiveLimitOf(limit, lo)
            IN /\ sqrt_limit' = sq
               /\ low' = lo
               /\ effective_limit' = eff
               /\ cpc' = [c \in Consumers |-> "spawned"]
               /\ total_segments' = 0
               /\ IF eff < 2
                  THEN /\ mpc' = "join_v8"
                       /\ senders_alive' = FALSE
                       /\ small_primes' = <<>>
                  ELSE /\ mpc' = "send_small"
                       /\ senders_alive' = TRUE
                       /\ small_primes' = find_primes_v2(sq)
    /\ UNCHANGED <<cli, env, uring, calc, total_received, result, next_segment,
                   wpc, wseg, chan, segment_buffer, next_expected_id, count,
                   file, small_file, small_count, total, claimed, sentCount,
                   flushed, received>>

\* The index a worker starts its stride at, and the segment after `idx`:
\* for segment_idx in (worker_id..total_segments).step_by(num_workers)
StrideFirst(w) == w - 1

StrideNext(idx) == idx + num_workers

\* primes.rs:617-651: the small primes go out as segment 0; the segment range
\* is computed and the workers are spawned, each with the first segment of its
\* stride sieved
V8SendSmall ==
    /\ mpc = "send_small"
    /\ IF ~ReceiverAlive(1)
       THEN /\ mpc' = "join_v8"
            /\ senders_alive' = FALSE
            /\ UNCHANGED <<chan, total_segments, wpc, wseg>>
       ELSE /\ chan' = [chan EXCEPT ![1] =
                    Append(@, [segment_id |-> 0, primes |-> small_primes])]
            /\ IF effective_limit < low
               THEN /\ mpc' = "join_v8"
                    /\ senders_alive' = FALSE
                    /\ UNCHANGED <<total_segments, wpc, wseg>>
               ELSE LET n == TotalSegmentsOf(effective_limit, low)
                    IN /\ total_segments' = n
                       /\ mpc' = "producing_v8"
                       /\ senders_alive' = TRUE
                       /\ wpc' = [w \in Workers |->
                                    IF StrideFirst(w) < n THEN "send" ELSE "done"]
                       /\ wseg' = [w \in Workers |->
                                    IF StrideFirst(w) < n
                                    THEN SegmentPrimes(StrideFirst(w))
                                    ELSE wseg[w]]
    /\ UNCHANGED <<cli, env, uring, calc, total_received, sqrt_limit,
                   effective_limit, low, small_primes, result, next_segment,
                   cpc, segment_buffer, next_expected_id, count, file,
                   small_file, small_count, total, claimed, sentCount, flushed,
                   received>>

\* primes.rs:704-713 and the next turn of the loop: the send succeeds (the
\* channel is unbounded), the next segment of the stride is sieved
V8WorkerSend(w) ==
    /\ mpc = "producing_v8"
    /\ wpc[w] = "send"
    /\ ReceiverAlive(1)
    /\ chan' = [chan EXCEPT ![1] = Append(@, wseg[w])]
    /\ sentCount' = (wseg[w].segment_id :>
                        (IF wseg[w].segment_id \in DOMAIN sentCount
                         THEN sentCount[wseg[w].segment_id] + 1 ELSE 1))
                    @@ sentCount
    /\ LET idx == StrideNext(wseg[w].segment_id - 1)
       IN IF idx < total_segments
          THEN /\ wseg' = [wseg EXCEPT ![w] = SegmentPrimes(idx)]
               /\ wpc' = wpc
          ELSE /\ wseg' = wseg
               /\ wpc' = [wpc EXCEPT ![w] = "done"]
    /\ UNCHANGED <<cli, env, uring, calc, total_received, run, result, mpc,
                   next_segment, senders_alive, cpc, segment_buffer,
                   next_expected_id, count, file, small_file, small_count,
                   total, claimed, flushed, received>>

\* primes.rs:710-712: the receiver is gone; the worker returns
V8WorkerSendFail(w) ==
    /\ mpc = "producing_v8"
    /\ wpc[w] = "send"
    /\ ~ReceiverAlive(1)
    /\ wpc' = [wpc EXCEPT ![w] = "done"]
    /\ UNCHANGED <<cli, env, uring, calc, total_received, run, result, mpc,
                   next_segment, wseg, chan, senders_alive, cpc,
                   segment_buffer, next_expected_id, count, file, small_file,
                   small_count, total, claimed, sentCount, flushed, received>>

\* primes.rs:716-719: thread::scope has joined every worker; the function
\* returns and drops the sender
V8Return ==
    /\ mpc = "producing_v8"
    /\ \A w \in Workers : wpc[w] = "done"
    /\ senders_alive' = SendersAfterReturn
    /\ mpc' = "join_v8"
    /\ UNCHANGED <<cli, env, uring, calc, total_received, run, result,
                   next_segment, wpc, wseg, chan, cpc, segment_buffer,
                   next_expected_id, count, file, small_file, small_count,
                   total, claimed, sentCount, flushed, received>>

\* main.rs:405: consumer_handle.join()
V8Join ==
    /\ mpc = "join_v8"
    /\ cpc[1] \in {"done", "failed"}
    /\ total' = count[1]
    /\ mpc' = "done"
    /\ UNCHANGED <<cli, env, uring, calc, total_received, run, result,
                   next_segment, wpc, wseg, chan, senders_alive, cpc,
                   segment_buffer, next_expected_id, count, file, small_file,
                   small_count, claimed, sentCount, flushed, received>>

\* storage.rs:350-372
V8ConsumerOpen == OpenAt(1, V8TextFileName)

\* storage.rs:413-425: one iteration of `for segment_primes in rx`: insert,
\* then write next_expected_id, next_expected_id + 1, ... while present
V8ConsumerRecv ==
    /\ cpc[1] = "recv"
    /\ chan[1] # <<>>
    /\ \E st \in {OnReceive(ConsumerState(1), Head(chan[1]), 1)} :
          /\ segment_buffer' = [segment_buffer EXCEPT ![1] = st.buf]
          /\ next_expected_id' = [next_expected_id EXCEPT ![1] = st.next]
          /\ count' = [count EXCEPT ![1] = st.count]
          /\ flushed' = [flushed EXCEPT ![1] = st.flushed]
          /\ file' = [file EXCEPT ![1] =
                WriteSegmentsText(@,
                    MapInsert(segment_buffer[1], Head(chan[1]).segment_id,
                              Head(chan[1]).primes),
                    SubSeq(st.flushed, Len(flushed[1]) + 1, Len(st.flushed)), 1)]
    /\ received' = [received EXCEPT ![1] = Append(@, Head(chan[1]).segment_id)]
    /\ chan' = [chan EXCEPT ![1] = Tail(@)]
    /\ UNCHANGED <<cli, env, uring, calc, total_received, run, result, mpc,
                   next_segment, wpc, wseg, senders_alive, cpc, small_file,
                   small_count, total, claimed, sentCount>>

\* storage.rs:427-438: the channel is empty and the sender is gone; whatever
\* the buffer still holds is written, smallest id first
V8ConsumerClose ==
    /\ cpc[1] = "recv"
    /\ chan[1] = <<>>
    /\ ~senders_alive
    /\ \E st \in {DrainRemaining(ConsumerState(1))} :
          /\ segment_buffer' = [segment_buffer EXCEPT ![1] = st.buf]
          /\ count' = [count EXCEPT ![1] = st.count]
          /\ flushed' = [flushed EXCEPT ![1] = st.flushed]
          /\ file' = [file EXCEPT ![1] =
                WriteSegmentsText(@, segment_buffer[1],
                    SubSeq(st.flushed, Len(flushed[1]) + 1, Len(st.flushed)), 1)]
    /\ cpc' = [cpc EXCEPT ![1] = "done"]
    /\ UNCHANGED <<cli, env, uring, calc, total_received, run, result, mpc,
                   next_segment, wpc, wseg, chan, senders_alive,
                   next_expected_id, small_file, small_count, total, claimed,
                   sentCount, received>>

V8Next ==
    \/ V8Start
    \/ V8SendSmall
    \/ V8Return
    \/ V8Join
    \/ \E w \in Workers : V8WorkerSend(w)
    \/ \E w \in Workers : V8WorkerSendFail(w)
    \/ V8ConsumerOpen
    \/ \E c \in Consumers : ConsumerOpenFail(c)
    \/ V8ConsumerRecv
    \/ V8ConsumerClose

V8Spec == V8Init /\ [][V8Next]_vars

-----------------------------------------------------------------------------
(* Variation 5: find_primes_v5 (primes.rs:1023-1098), the sequential          *)
(* segmented sieve; variations 6 and 7 and the streaming form of 5 run the    *)
(* same loop over `low` (primes.rs:309-364, 402-460, 500-547)                 *)

\* What the sequential sieve leaves alone: the threads and files of the
\* pipelines
pipeline_state == <<effective_limit, total_segments, next_segment, wpc, wseg,
                    chan, senders_alive, cpc, segment_buffer, next_expected_id,
                    count, file, small_file, small_count, total, claimed,
                    sentCount, flushed, received>>

V5Init ==
    /\ limit \in 0..WordMax
    /\ num_workers = 1
    /\ consumers = 1
    /\ mpc = "start_v5"
    /\ sqrt_limit = 0
    /\ effective_limit = 0
    /\ low = 0
    /\ total_segments = 0
    /\ small_primes = <<>>
    /\ result = <<>>
    /\ next_segment = 0
    /\ wpc = [w \in Workers |-> "idle"]
    /\ wseg = [w \in Workers |-> [segment_id |-> 0, primes |-> <<>>]]
    /\ chan = [c \in Consumers |-> <<>>]
    /\ senders_alive = FALSE
    /\ cpc = [c \in Consumers |-> "idle"]
    /\ segment_buffer = [c \in Consumers |-> <<>>]
    /\ next_expected_id = [c \in Consumers |-> c]
    /\ count = [c \in Consumers |-> 0]
    /\ file = [c \in Consumers |-> <<>>]
    /\ small_file = <<>>
    /\ small_count = 0
    /\ total_received = 0
    /\ fpc = "off"
    /\ arg_text = <<>>
    /\ arg_num = 0
    /\ arg_base = 2
    /\ ret_bool = FALSE
    /\ ret_text = <<>>
    /\ io_ok = TRUE
    /\ dir = {}
    /\ removed = {}
    /\ sqes = <<>>
    /\ kernel = {}
    /\ cq = <<>>
    /\ offset = 0
    /\ submitted = 0
    /\ completed = 0
    /\ pending_buffers = <<>>
    /\ batch_count = 0
    /\ wait_left = 0
    /\ seen_failure = FALSE
    /\ late_submit = FALSE
    /\ total = 0
    /\ claimed = <<>>
    /\ sentCount = <<>>
    /\ flushed = [c \in Consumers |-> <<>>]
    /\ received = [c \in Consumers |-> <<>>]

\* primes.rs:1024-1059: the trivial limits, the small primes, the first low
V5Start ==
    /\ mpc = "start_v5"
    /\ IF limit < 2
       THEN /\ result' = <<>>
            /\ mpc' = "done_v5"
            /\ UNCHANGED <<sqrt_limit, small_primes, low>>
       ELSE IF limit = 2
       THEN /\ result' = <<2>>
            /\ mpc' = "done_v5"
            /\ UNCHANGED <<sqrt_limit, small_primes, low>>
       ELSE /\ sqrt_limit' = SqrtLimitOf(limit)
            /\ small_primes' = find_primes_v2(SqrtLimitOf(limit))
            /\ result' = find_primes_v2(SqrtLimitOf(limit))
            /\ low' = LowOf(SqrtLimitOf(limit))
            /\ mpc' = "loop_v5"
    /\ UNCHANGED <<cli, env, uring, calc, total_received, pipeline_state>>

\* The segment after the one that ends at `high`: low = high + 2
NextLow(high) == high + 2

\* primes.rs:1065-1095: one turn of `while low <= limit`: the segment
\* [low, low + SEGMENT_SIZE_NUMBERS - 1] is sieved, every set bit idx is
\* pushed as low + idx * 2, and low moves on; an overflow panics
V5Segment ==
    /\ mpc = "loop_v5"
    /\ low <= limit
    /\ LET high == low + SEGMENT_SIZE_NUMBERS - 1
       IN IF KernelOverflows(0, low, high, small_primes) \/ NextLow(high) > WordMax
          THEN /\ mpc' = "panicked"
               /\ UNCHANGED <<result, low>>
          ELSE /\ result' = result \o SievedSegment(low, high, small_primes)
               /\ low' = NextLow(high)
               /\ mpc' = mpc
    /\ UNCHANGED <<cli, env, uring, calc, total_received, sqrt_limit,
                   small_primes, pipeline_state>>

\* primes.rs:1065 and 1097: low has passed the limit; all_primes is returned
V5Return ==
    /\ mpc = "loop_v5"
    /\ low > limit
    /\ mpc' = "done_v5"
    /\ UNCHANGED <<cli, env, uring, calc, total_received, sqrt_limit,
                   small_primes, result, low, pipeline_state>>

V5Next == V5Start \/ V5Segment \/ V5Return

V5Spec == V5Init /\ [][V5Next]_vars

-----------------------------------------------------------------------------
(* Vocabulary of the properties *)

Count(seq, v) == Cardinality({i \in 1..Len(seq) : seq[i] = v})

IsStrictlyAscending(seq) == \A i \in 1..(Len(seq) - 1) : seq[i] < seq[i + 1]

\* The run got past the limit check and spawned workers
Running == mpc \notin {"start", "rejected"} /\ total_segments > 0

AllWorkersExited == Running /\ \A w \in Workers : wpc[w] = "done"

\* No consumer gave its receiver up before the channel closed
NoReceiverDropped == \A c \in Consumers : cpc[c] # "failed"

\* Consumer c's id subset within 1..m, ascending: the ids congruent to c
\* modulo the number of consumers
IdsOf(c, m) == SortedSeq({id \in 1..m : id % consumers = c % consumers})

\* Messages sent and not yet written: in a channel or in a reorder buffer
Unflushed(c) == Len(chan[c]) + Cardinality(DOMAIN segment_buffer[c])

-----------------------------------------------------------------------------
(* C1: every value the cursor hands out is handed out once: the k-th claim   *)
(* of the run returns index k-1, so no index below total_segments is claimed *)
(* twice or skipped; no two workers hold the same index; and once every      *)
(* worker has left through exhaustion each index in [0, total_segments) was  *)
(* claimed exactly once.                                                     *)
C1_ExactlyOnceClaim ==
    /\ \A k \in 1..Len(claimed) : claimed[k] = k - 1
    /\ \A i \in 0..(total_segments - 1) : Count(claimed, i) <= 1
    /\ \A w1, w2 \in Workers :
          (w1 # w2 /\ wpc[w1] = "send" /\ wpc[w2] = "send")
              => wseg[w1].segment_id # wseg[w2].segment_id
    /\ (AllWorkersExited /\ NoReceiverDropped)
          => \A i \in 0..(total_segments - 1) : Count(claimed, i) = 1

C1_Witness ==
    /\ AllWorkersExited /\ NoReceiverDropped
    /\ num_workers = 2
    /\ total_segments >= 3
    /\ Len(claimed) = total_segments + num_workers

(* C2: with every receiver open, no segment id is ever sent twice, only ids  *)
(* 1..total_segments are sent, and once all workers have exited each of      *)
(* them has been sent exactly once.                                          *)
C2_PartitionComplete ==
    /\ \A id \in DOMAIN sentCount : id \in 1..total_segments /\ sentCount[id] = 1
    /\ (AllWorkersExited /\ NoReceiverDropped)
          => DOMAIN sentCount = 1..total_segments

C2_Witness ==
    /\ AllWorkersExited /\ NoReceiverDropped
    /\ consumers = 2
    /\ total_segments >= 4
    /\ DOMAIN sentCount = 1..total_segments

(* C3: the segment ids a consumer has written are strictly ascending at      *)
(* every moment, whatever the arrival order, the final drain included.       *)
C3_FlushAscending ==
    \A c \in Consumers : IsStrictlyAscending(flushed[c])

\* An id arrived ahead of a smaller one and both have been written
C3_Witness ==
    \E c \in Consumers :
        /\ ~IsStrictlyAscending(received[c])
        /\ Len(flushed[c]) = Len(received[c])
        /\ Len(flushed[c]) >= 2

(* C4: whatever sits in, or came through, consumer c's channel has an id     *)
(* congruent to c modulo the number of consumers.                            *)
C4_RoutingInvariant ==
    \A c \in Consumers :
        /\ \A i \in 1..Len(chan[c]) : chan[c][i].segment_id % consumers = c % consumers
        /\ \A i \in 1..Len(received[c]) : received[c][i] % consumers = c % consumers
        /\ \A id \in DOMAIN segment_buffer[c] : id % consumers = c % consumers

C4_Witness ==
    /\ consumers = 2
    /\ Len(received[2]) >= 1
    /\ Len(received[1]) >= 2
    /\ chan[2] # <<>>

-----------------------------------------------------------------------------
(* Reading the output files back *)

\* u64::from_le_bytes of the 8 bytes starting at position i
from_le_bytes(bytes, i) ==
    LET b(k) == bytes[i + k]
    IN b(0) + 256 * (b(1) + 256 * (b(2) + 256 * (b(3) + 256 * (b(4)
         + 256 * (b(5) + 256 * (b(6) + 256 * b(7)))))))

DecodeFile(bytes) ==
    [k \in 1..(Len(bytes) \div 8) |-> from_le_bytes(bytes, 8 * (k - 1) + 1)]

\* Every value found in primes_small.bin or a primes_{c}.bin
EmittedValues ==
    SeqToSet(DecodeFile(small_file))
        \cup UNION {SeqToSet(DecodeFile(file[c])) : c \in Consumers}

\* The reference result for [0, n]: the single-threaded sieve
ReferencePrimes(n) == SeqToSet(find_primes_v2(n))

\* The content of primes_{c}.bin as a function of (limit, consumers) alone:
\* consumer c's segments in id order
RECURSIVE ConcatSegments(_)
ConcatSegments(ids) ==
    IF ids = <<>> THEN <<>>
    ELSE SievedSegment(SegLow(Head(ids) - 1), SegHigh(Head(ids) - 1), small_primes)
            \o ConcatSegments(Tail(ids))

ExpectedFile(c) == EncodeAll(ConcatSegments(IdsOf(c, total_segments)))

-----------------------------------------------------------------------------
(* C5: at the end of a run with every consumer alive, the values in the      *)
(* small-primes file and the consumer files are exactly the primes of        *)
(* [0, limit].                                                               *)
C5_UnionIsReference ==
    (mpc = "done" /\ NoReceiverDropped) => EmittedValues = ReferencePrimes(limit)

(* C6: at the end of a run with every consumer alive, each file's bytes are  *)
(* the function ExpectedFile of (limit, consumers), whatever the number of   *)
(* workers and the interleaving were.                                        *)
C6_FilesDetermined ==
    (mpc = "done" /\ NoReceiverDropped)
        => /\ \A c \in Consumers : file[c] = ExpectedFile(c)
           /\ small_file = EncodeAll(small_primes)

\* A finished run in which a consumer saw its segments out of order
C6_Witness ==
    /\ mpc = "done" /\ NoReceiverDropped
    /\ \E c \in Consumers :
          ~IsStrictlyAscending(received[c]) /\ Len(file[c]) >= 24

(* C7: under fair scheduling every run ends: all workers have exited, every  *)
(* consumer has returned and the main thread has joined them.                *)
Terminated ==
    \/ mpc = "rejected"
    \/ /\ mpc = "done"
       /\ \A w \in Workers : wpc[w] \in {"idle", "done"}
       /\ \A c \in Consumers : cpc[c] \in {"done", "failed"}

C7_Termination == <>Terminated

\* A run that ended after a worker-filled channel, all consumers alive
C7_Witness ==
    /\ mpc = "done" /\ NoReceiverDropped
    /\ num_workers = 2 /\ consumers = 2
    /\ \A w \in Workers : wpc[w] = "done"
    /\ \A c \in Consumers : cpc[c] = "done" /\ Len(received[c]) >= 2

(* C8: a channel never holds more than CHANNEL_CAPACITY messages; a send to  *)
(* a full channel of a live receiver cannot complete; and every message sent *)
(* to a consumer that did not give up its receiver is in its channel or has  *)
(* been received, once.                                                      *)
SentTo(c) == {id \in DOMAIN sentCount : id % consumers = c % consumers}

InChannelOrReceived(c) ==
    {chan[c][i].segment_id : i \in 1..Len(chan[c])} \cup SeqToSet(received[c])

C8_ChannelBounded ==
    /\ \A c \in Consumers : Len(chan[c]) <= CHANNEL_CAPACITY
    /\ \A w \in Workers :
          (wpc[w] = "send" /\ ReceiverAlive(Target(w))
                /\ Len(chan[Target(w)]) = CHANNEL_CAPACITY)
              => ~ENABLED WorkerSend(w) /\ ~ENABLED WorkerSendFail(w)
    /\ \A c \in Consumers :
          cpc[c] # "failed"
              => /\ InChannelOrReceived(c) = SentTo(c)
                 /\ Len(chan[c]) + Len(received[c]) = Cardinality(SentTo(c))

\* A worker blocked on a full channel
C8_Witness ==
    \E w \in Workers :
        /\ wpc[w] = "send"
        /\ ReceiverAlive(Target(w))
        /\ Len(chan[Target(w)]) = CHANNEL_CAPACITY

(* C9: the messages sent and not yet written never number more than          *)
(* CHANNEL_CAPACITY * consumers + num_workers, a bound in C, K and W only.   *)
RECURSIVE SumUnflushed(_)
SumUnflushed(S) ==
    IF S = {} THEN 0
    ELSE LET c == CHOOSE x \in S : TRUE IN Unflushed(c) + SumUnflushed(S \ {c})

C9_BackpressureBound ==
    SumUnflushed(Consumers) <= CHANNEL_CAPACITY * consumers + num_workers

(* C10: after a receiver was dropped, at the end of the run every remaining  *)
(* consumer has written every id of its residue class in 1..total_segments,  *)
(* in ascending order.                                                       *)
C10_RemainingComplete ==
    (mpc = "done" /\ ~NoReceiverDropped)
        => \A c \in Consumers :
              cpc[c] = "done" => flushed[c] = IdsOf(c, total_segments)

\* The number of indices below total_segments that were claimed
ClaimedSegments == Cardinality(SeqToSet(claimed) \cap 0..(total_segments - 1))

(* C10 as amended: after a receiver was dropped, at the end of the run every *)
(* remaining consumer has written, in ascending order, exactly the ids of    *)
(* its residue class among the segments claimed before the workers stopped,  *)
(* a gap-free prefix of its id subset; and every worker has left its loop.   *)
C10_RemainingPrefix ==
    (mpc = "done" /\ ~NoReceiverDropped)
        => /\ \A w \in Workers : wpc[w] = "done"
           /\ \A c \in Consumers :
                 cpc[c] = "done"
                    => /\ flushed[c] = IdsOf(c, ClaimedSegments)
                       /\ file[c] = EncodeAll(ConcatSegments(flushed[c]))

\* A finished run with a dropped receiver in which a remaining consumer wrote
\* some of its segments and not all
C10_Witness ==
    /\ mpc = "done" /\ ~NoReceiverDropped
    /\ \E c \in Consumers :
          /\ cpc[c] = "done"
          /\ Len(flushed[c]) >= 1
          /\ flushed[c] # IdsOf(c, total_segments)

-----------------------------------------------------------------------------
\* Every worker has left its loop through the exhaustion test
AllWorkersExhausted == AllWorkersExited /\ NoReceiverDropped

\* Consumer c's receive loop has ended: the channel is empty and closed
LoopEnded(c) == cpc[c] = "recv" /\ chan[c] = <<>> /\ ~senders_alive

(* C11: when a consumer's receive loop ends in a run whose workers all ran   *)
(* to exhaustion with every receiver open, its reorder buffer is empty and   *)
(* every id it received has been written by the in-order loop; the final     *)
(* drain adds nothing.                                                       *)
C11_BufferEmptyAtLoopEnd ==
    \A c \in Consumers :
        /\ (LoopEnded(c) /\ AllWorkersExhausted)
              => /\ DOMAIN segment_buffer[c] = {}
                 /\ flushed[c] = IdsOf(c, total_segments)
                 /\ SeqToSet(received[c]) = SeqToSet(flushed[c])
        /\ (cpc[c] = "done" /\ AllWorkersExhausted)
              => /\ flushed[c] = IdsOf(c, total_segments)
                 /\ next_expected_id[c] = c + consumers * Len(flushed[c])

\* The loop of a consumer that had to reorder its segments has ended
C11_Witness ==
    \E c \in Consumers :
        /\ LoopEnded(c) /\ AllWorkersExhausted
        /\ ~IsStrictlyAscending(received[c])
        /\ Len(received[c]) >= 2

-----------------------------------------------------------------------------
(* C12: when a consumer has returned after the closure of its channel, its   *)
(* reorder buffer is empty and every segment it received has been handed to  *)
(* the sink.                                                                 *)
C12_ResidualDrained ==
    \A c \in Consumers :
        cpc[c] = "done"
            => /\ DOMAIN segment_buffer[c] = {}
               /\ SeqToSet(received[c]) \subseteq SeqToSet(flushed[c])

-----------------------------------------------------------------------------
(* C13: a consumer that finds entries in its reorder buffer after the channel *)
(* closed does not write them and return as from a correct run: when it has   *)
(* returned, what it wrote is what the in-order loop processed, and its count *)
(* covers nothing else.                                                       *)
C13_ResidualNotAbsorbed ==
    \A c \in Consumers :
        cpc[c] = "done"
            => /\ flushed[c] = ConsecutiveRun(SeqToSet(received[c]), c, consumers)
               /\ count[c] = Len(ConcatSegments(flushed[c]))

-----------------------------------------------------------------------------
(* C14: the number of writes in flight (submitted - completed) never exceeds *)
(* MAX_IN_FLIGHT + 1.                                                        *)
C14_InFlightBounded == in_flight <= MAX_IN_FLIGHT + 1

(* C15: a failed completion ends the pipeline through an error path: the     *)
(* consumer never leaves by process exit, and it submits no write after it   *)
(* has read a failed completion.                                             *)
C15_FailureIsFatal ==
    /\ \A c \in Consumers : cpc[c] # "exited"
    /\ ~late_submit

\* The bytes of the segments with the given ids, in that order
BytesOf(ids) == EncodeAll(ConcatSegments(ids))

(* C16: the k-th submitted write carries the data of the k-th segment in id  *)
(* order at the offset that is the sum of the lengths of the writes before   *)
(* it, and once every write has completed the file is the concatenation of   *)
(* the segments in id order, whatever the order of the completions was.      *)
C16_OffsetsAndContent ==
    /\ \A op \in kernel \cup SeqToSet(sqes) :
          /\ op.offset = Len(BytesOf(SubSeq(flushed[op.consumer], 1, op.id - 1)))
          /\ op.data = BytesOf(<<flushed[op.consumer][op.id]>>)
    /\ \A c \in Consumers :
          (cpc[c] = "done" /\ submitted > 0 /\ completed = submitted)
              => file[c] = BytesOf(flushed[c])

-----------------------------------------------------------------------------
\* The ids among `got` the in-order loop of consumer c has processed
InOrderPrefix(c, got) == ConsecutiveRun(got, c, consumers)

(* C17: a failed write stops nothing: the consumer stays in its receive      *)
(* loop, next_expected_id advances past every processed segment whether its  *)
(* write succeeded or not, every consecutive id received is processed, no    *)
(* worker leaves its loop before exhaustion, and at the end of a run with    *)
(* every receiver open each consumer has processed its whole id subset.      *)
C17_WriteFailureSkipped ==
    /\ \A c \in Consumers :
          /\ cpc[c] = "failed" => received[c] = <<>>
          /\ cpc[c] \in {"recv", "done"}
                => /\ next_expected_id[c] = c + consumers * Len(flushed[c])
                   /\ flushed[c] = InOrderPrefix(c, SeqToSet(received[c]))
                   /\ count[c] = Len(ConcatSegments(flushed[c]))
    /\ (AllWorkersExited /\ NoReceiverDropped)
          => DOMAIN sentCount = 1..total_segments
    /\ (mpc = "done" /\ NoReceiverDropped)
          => \A c \in Consumers : flushed[c] = IdsOf(c, total_segments)

\* A finished run in which some write of a consumer failed and a later one
\* succeeded
C17_Witness ==
    /\ mpc = "done" /\ NoReceiverDropped
    /\ \E c \in Consumers :
          /\ Len(file[c]) < 8 * count[c]
          /\ Len(flushed[c]) >= 2
          /\ file[c] # <<>>
          /\ DecodeFile(file[c])[Len(file[c]) \div 8]
                = ConcatSegments(flushed[c])[count[c]]

-----------------------------------------------------------------------------
-----------------------------------------------------------------------------
(* C19: the count a consumer returns is the number of values in its file,    *)
(* and the reported total is the number of values in the small-primes file   *)
(* plus the sum of the consumers' counts.                                    *)
C19_CountsMatchFiles ==
    /\ \A c \in Consumers :
          cpc[c] \in {"done", "failed"} => count[c] = Len(file[c]) \div 8
    /\ mpc = "done"
          => total = (Len(small_file) \div 8) + SumCounts(count, Consumers)

-----------------------------------------------------------------------------
-----------------------------------------------------------------------------
(* C24: why a worker leaves its loop *)

\* The consumer the router sends an id to: senders[(segment_id - 1) % K]
RoutedTo(segment_id) == ((segment_id - 1) % consumers) + 1

\* The worker's last send failed: it holds a segment whose consumer is gone
OwnSendFailed(w) ==
    /\ wseg[w].segment_id >= 1
    /\ ~ReceiverAlive(RoutedTo(wseg[w].segment_id))

\* C24: a worker that has left its loop either drew an index >= total_segments
\* from the cursor or holds a segment whose own send failed; while indices
\* remain, a failed send has stopped nobody but the worker that made it
C24_WorkerExitReason ==
    \A w \in Workers :
        (Running /\ wpc[w] = "done") =>
            \/ next_segment > total_segments
            \/ OwnSendFailed(w)

\* One worker was stopped by its failed send while indices remain, and another
\* holds a later segment that it is about to hand to a living consumer
C24_Witness ==
    \E w, v \in Workers :
        /\ wpc[w] = "done" /\ OwnSendFailed(w)
        /\ next_segment < total_segments
        /\ wpc[v] = "send"
        /\ wseg[v].segment_id > wseg[w].segment_id
        /\ ReceiverAlive(RoutedTo(wseg[v].segment_id))

-----------------------------------------------------------------------------
(* C26: the id a consumer waits for *)

\* C26: next_expected_id of consumer c is an id the router sends to c; it is c
\* plus num_consumers for every segment the in-order loop has flushed, and every
\* smaller id of c has been flushed
C26_NextExpectedRouted ==
    \A c \in Consumers :
        /\ next_expected_id[c] >= c
        /\ RoutedTo(next_expected_id[c]) = c
        /\ {id \in 1..(next_expected_id[c] - 1) : RoutedTo(id) = c}
              \subseteq SeqToSet(flushed[c])
        /\ cpc[c] \in {"idle", "spawned", "recv"} =>
              next_expected_id[c] = c + consumers * Len(flushed[c])

\* Two consumers, one of which has flushed two segments and waits for a third
C26_Witness ==
    /\ consumers = 2
    /\ \E c \in Consumers :
          /\ cpc[c] = "recv"
          /\ Len(flushed[c]) >= 2
          /\ next_expected_id[c] = c + 2 * consumers
          /\ next_expected_id[c] <= total_segments

-----------------------------------------------------------------------------
(* C29: the cursor *)

\* The values fetch_add has returned so far are 0, 1, 2, ... in that order: the
\* cursor never decreases and no two claims return the same index
CursorCountsClaims ==
    /\ next_segment = Len(claimed)
    /\ \A k \in 1..Len(claimed) : claimed[k] = k - 1

\* A worker sieves and sends only an index below total_segments; a claim that
\* returned total_segments or more ended the loop of the worker that made it
ClaimsInRangeOrExhausted ==
    /\ \A w \in Workers : wpc[w] = "send" => wseg[w].segment_id <= total_segments
    /\ DOMAIN sentCount \subseteq 1..total_segments
    /\ Running =>
          Cardinality({w \in Workers : wpc[w] = "done"})
              >= Cardinality({k \in 1..Len(claimed) : claimed[k] >= total_segments})

\* C29 as stated: the cursor never goes beyond total_segments
C29_CursorWithinTotal ==
    /\ CursorCountsClaims
    /\ ClaimsInRangeOrExhausted
    /\ Running => next_segment <= total_segments

\* C29, amended: the cursor never decreases, claims return distinct indices,
\* those below total_segments are worked on and the others end the claiming
\* worker's loop; each worker draws at most one index >= total_segments, so the
\* cursor ends at most num_workers beyond total_segments
C29_CursorWithinTotalPlusWorkers ==
    /\ CursorCountsClaims
    /\ ClaimsInRangeOrExhausted
    /\ Running => next_segment <= total_segments + num_workers

\* Two workers have both drawn an exhausted index: the cursor stands at
\* total_segments + 2
C29_Witness ==
    /\ Running
    /\ num_workers = 2
    /\ total_segments >= 2
    /\ next_segment = total_segments + num_workers
    /\ \A w \in Workers : wpc[w] = "done"

-----------------------------------------------------------------------------
(* C30: the segment descriptors *)

\* The descriptors of limit `lim` with first number `lo` partition [lo, lim]:
\* the first starts at lo, each next one starts right after the one before,
\* the last ends at lim, every start is odd and every one but the last has
\* SEGMENT_SIZE_NUMBERS numbers
DescriptorsPartition(lo, lim) ==
    LET n == TotalSegmentsOf(lim, lo)
    IN /\ n >= 1
       /\ SegLowOf(0, lo) = lo
       /\ SegHighOf(n - 1, lo, lim) = lim
       /\ \A i \in 0..(n - 1) :
             /\ SegLowOf(i, lo) % 2 = 1
             /\ SegLowOf(i, lo) <= SegHighOf(i, lo, lim)
             /\ i < n - 1 =>
                   /\ SegHighOf(i, lo, lim) + 1 = SegLowOf(i + 1, lo)
                   /\ SegHighOf(i, lo, lim) - SegLowOf(i, lo) + 1 = SEGMENT_SIZE_NUMBERS

\* C30: once a run has computed low, the descriptors partition [low, lim] for
\* the limit the function was called with and for every smaller limit >= low
\* it could have been called with
C30_DescriptorsPartition ==
    Running => \A lim \in low..effective_limit : DescriptorsPartition(low, lim)

\* A run with three segments or more; among the limits covered are some whose
\* last segment is shorter than a full one
C30_Witness ==
    /\ Running
    /\ total_segments >= 3
    /\ \E lim \in low..effective_limit :
          LET n == TotalSegmentsOf(lim, low)
          IN /\ n >= 2
             /\ SegHighOf(n - 1, low, lim) - SegLowOf(n - 1, low) + 1
                    < SEGMENT_SIZE_NUMBERS

-----------------------------------------------------------------------------
(* C27: the buffers of the asynchronous sink *)

\* The writes the sink has handed to the ring and whose completion the kernel
\* has not posted yet
WritesInFlight == kernel \cup SeqToSet(sqes)

\* C27: the buffer of every write still in flight is held in pending_buffers
C27_BuffersOutliveWrites ==
    \A op \in WritesInFlight : op.id \in SeqToSet(pending_buffers)

-----------------------------------------------------------------------------
(* C25: the reorder buffer between two messages *)

\* What consumer c has received is what a router sends it: ids of its own
\* subset, each once
RoutedOnce(c) ==
    /\ \A i \in 1..Len(received[c]) : RoutedTo(received[c][i]) = c
    /\ \A i, j \in 1..Len(received[c]) :
          received[c][i] = received[c][j] => i = j

\* C25: when a consumer fed by a router is back at its channel, its reorder
\* buffer holds no id below next_expected_id and not next_expected_id itself,
\* and the ids it has removed for writing are strictly ascending
C25_PendingBeyondNext ==
    \A c \in Consumers :
        (RoutedOnce(c) /\ cpc[c] = "recv") =>
            /\ \A id \in DOMAIN segment_buffer[c] : id > next_expected_id[c]
            /\ IsStrictlyAscending(flushed[c])

-----------------------------------------------------------------------------
(* C28: which thread writes what *)

\* The workers that have executed the cursor's fetch_add: a worker holds a
\* segment or has left its loop only after a claim
CursorWriters ==
    {w \in Workers : wpc[w] \in {"send", "done"} \/ wseg[w].segment_id > 0}

\* The consumers that have executed total_received.fetch_add
ReceiveCounterWriters == {c \in Consumers : received[c] # <<>>}

\* What only the thread of consumer c may write
OwnedBy(c) == <<segment_buffer[c], next_expected_id[c], count[c], file[c]>>

\* Every variable is written by the steps of its own thread only: the base by
\* main before the workers exist, a worker's segment by that worker, a
\* consumer's buffer, expected id, count and file by that consumer, the cursor
\* by the workers and the receive counter by the consumers
SingleWriterFrame ==
    /\ small_primes' # small_primes => MainStart
    /\ \A w \in Workers : wseg'[w] # wseg[w] => WorkerClaim(w)
    /\ \A c \in Consumers :
          OwnedBy(c)' # OwnedBy(c) =>
              ConsumerOpen(c) \/ ConsumerRecv(c) \/ ConsumerClose(c)
    /\ next_segment' # next_segment => \E w \in Workers : WorkerClaim(w)
    /\ total_received' # total_received => \E c \in Consumers : ConsumerRecv(c)

\* No increment of the receive counter is lost
ReceiveCounterExact == total_received = SumCounts([c \in Consumers |-> Len(received[c])], Consumers)

\* C28 as stated: nothing but the cursor is written by more than one thread
C28_OnlyCursorShared ==
    /\ ReceiveCounterExact
    /\ Cardinality(ReceiveCounterWriters) <= 1

\* C28, amended: the cursor and the receive counter are the two variables more
\* than one thread writes, both by atomic increments none of which is lost;
\* the base is written before the workers exist and never after; everything
\* else is written by one thread only
C28_CursorAndCounterShared ==
    /\ [](ReceiveCounterExact /\ CursorCountsClaims)
    /\ [][SingleWriterFrame]_vars

\* Two workers have written the cursor and two consumers the receive counter
C28_Witness ==
    /\ Cardinality(CursorWriters) = 2
    /\ Cardinality(ReceiveCounterWriters) = 2
    /\ total_received >= 2

-----------------------------------------------------------------------------
(* C22: is_palindrome *)

\* C22: is_palindrome returns true exactly for the strings of two characters
\* or more that read the same in both directions, characters compared as they
\* are; the empty string and a single character are not palindromes
C22_PalindromeExact ==
    fpc = "is_palindrome" =>
        (ret_bool <=> (Len(arg_text) >= 2 /\ arg_text = Reverse(arg_text)))

\* A call that returned true for a string of four characters, not all equal
C22_Witness ==
    /\ fpc = "is_palindrome"
    /\ ret_bool
    /\ Len(arg_text) = 4
    /\ arg_text[1] # arg_text[2]

-----------------------------------------------------------------------------
(* C23: to_base *)

\* The value of a digit character: '0'-'9' are 0-9, 'A'-'Z' 10-35,
\* 'a'-'z' 36-61; -1 for any other character
DigitValue(ch) ==
    IF ch \in 48..57 THEN ch - 48
    ELSE IF ch \in 65..90 THEN ch - 65 + 10
    ELSE IF ch \in 97..122 THEN ch - 97 + 36
    ELSE -1

\* The number a digit string stands for in base b, most significant digit
\* first
RECURSIVE FromBase(_, _)
FromBase(digits, b) ==
    IF digits = <<>> THEN 0
    ELSE FromBase(SubSeq(digits, 1, Len(digits) - 1), b) * b
            + DigitValue(digits[Len(digits)])

\* C23: to_base(num, base) is a non-empty string of digits of the alphabet
\* '0'-'9', 'A'-'Z', 'a'-'z', each below the base, without a leading zero
\* unless num is 0, where it is "0"; read back in that base it gives num
C23_ToBaseRoundTrip ==
    fpc = "to_base" =>
        /\ ret_text # <<>>
        /\ \A i \in 1..Len(ret_text) :
              DigitValue(ret_text[i]) \in 0..(arg_base - 1)
        /\ arg_num = 0 => ret_text = <<48>>
        /\ arg_num > 0 => ret_text[1] # 48
        /\ FromBase(ret_text, arg_base) = arg_num

\* A call whose result has two digits, the second of them a lower-case letter
\* (a digit of 36 or more)
C23_Witness ==
    /\ fpc = "to_base"
    /\ Len(ret_text) = 2
    /\ ret_text[2] >= 97
    /\ arg_num > arg_base

-----------------------------------------------------------------------------
(* C21: variation 8: the order of the single consumer's file *)

\* The values of the segment with the given id of a run of variation 8: the
\* small primes for id 0, the sieved segment id - 1 otherwise
V8Segment(id) == IF id = 0 THEN small_primes ELSE SegmentPrimes(id - 1).primes

RECURSIVE V8Concat(_)
V8Concat(ids) ==
    IF ids = <<>> THEN <<>> ELSE V8Segment(Head(ids)) \o V8Concat(Tail(ids))

V8Finished == mpc = "done" /\ cpc[1] = "done"

\* C21: whatever the interleaving of the workers, the consumer writes segment
\* 0, the small primes, whose first value is 2, before anything else, then the
\* sieved segments 1, 2, 3, ... in that order: the ids written so far are
\* 0..k-1 for some k, the file is their values in decimal, one per line, and
\* a finished run has written every id up to total_segments
C21_SmallFirstThenAscending ==
    /\ \A k \in 1..Len(flushed[1]) : flushed[1][k] = k - 1
    /\ file[1] = FormatLines(V8Concat(flushed[1]))
    /\ file[1] # <<>> => SubSeq(file[1], 1, 2) = <<50, 10>>
    /\ V8Finished => Len(flushed[1]) = total_segments + 1

\* A finished run of four segments or more in which a sieved segment reached
\* the consumer before one with a smaller id
C21_Witness ==
    /\ V8Finished
    /\ total_segments >= 3
    /\ Len(flushed[1]) = total_segments + 1
    /\ \E i, j \in 1..Len(received[1]) : i < j /\ received[1][i] > received[1][j]

-----------------------------------------------------------------------------
(* C31: what the sieve of a segment produces *)

\* The odd numbers of [lo, hi] that no trial divisor p > 2 of the base divides
OddUndivided(lo, hi, base) ==
    {n \in lo..hi : n % 2 = 1 /\ \A k \in 2..Len(base) : n % base[k] # 0}

\* C31: the values of the SegmentPrimes a worker has built for its segment
\* [seg_low, seg_high] are strictly increasing, odd, within the segment, and
\* exactly the odd numbers of the segment that no trial divisor p > 2 divides
C31_SegmentValues ==
    \A w \in Workers :
        wpc[w] = "send" =>
            LET idx == wseg[w].segment_id - 1
                values == wseg[w].primes
            IN /\ IsStrictlyAscending(values)
               /\ \A i \in 1..Len(values) :
                     /\ values[i] % 2 = 1
                     /\ values[i] \in SegLow(idx)..SegHigh(idx)
               /\ SeqToSet(values) = OddUndivided(SegLow(idx), SegHigh(idx), small_primes)

\* A worker holds a segment sieved with the divisors 3, 5 and 7 (or more): one
\* odd number of it at least was cleared and one at least is left
C31_Witness ==
    \E w \in Workers :
        /\ wpc[w] = "send"
        /\ Len(small_primes) >= 4
        /\ wseg[w].primes # <<>>
        /\ Len(wseg[w].primes) < SEGMENT_SIZE_BITS

-----------------------------------------------------------------------------
(* C33: the arithmetic stays within the machine word *)

\* C33: for every limit of the machine word no computation of the run
\* overflows: main's rounding neither panics nor wraps (the effective limit
\* is never below the limit it rounds up), and no worker is stopped by an
\* overflow in the sieve of a segment
C33_NoOverflow ==
    /\ mpc # "panicked"
    /\ \A w \in Workers : wpc[w] # "panicked"
    /\ mpc \notin {"start", "rejected", "panicked"} => effective_limit >= limit

-----------------------------------------------------------------------------
(* C32: the segments of the sequential variations *)

\* C32: the low of every segment the sequential sieve works on is odd, so
\* that bit idx stands for the odd number low + 2 * idx, and what the sieve has
\* collected beyond 2 is odd
C32_LowIsOdd ==
    /\ (mpc = "loop_v5" /\ low <= limit) => low % 2 = 1
    /\ mpc \in {"loop_v5", "done_v5"} =>
          \A i \in 1..Len(result) : result[i] = 2 \/ result[i] % 2 = 1

-----------------------------------------------------------------------------
(* C34: the data directory after a variation-9 run *)

\* The names the run at hand writes: the privileged file and one per consumer
LatestRunFiles == {SmallFileName} \cup {ConsumerFileName(c) : c \in Consumers}

\* The run at hand is past its clean-up: its consumers were spawned
ConsumersSpawned == \E c \in Consumers : cpc[c] # "idle"

-----------------------------------------------------------------------------
(* C35: the asynchronous consumer returns only when its writes are done *)

\* C35: when the io_uring consumer has returned and has read no failed
\* completion, every write it submitted has completed: submitted = completed,
\* pending_buffers is empty, and neither the rings nor the kernel hold a
\* write or a completion of it
C35_NoWriteOutstanding ==
    \A c \in Consumers :
        (cpc[c] = "done" /\ ~seen_failure)
            => /\ submitted - completed = 0
               /\ pending_buffers = <<>>
               /\ sqes = <<>>
               /\ kernel = {}
               /\ cq = <<>>

\* The consumer has returned without a failure after three writes, the last
\* of which was only submitted by the final submit_batch
C35_Witness ==
    \E c \in Consumers :
        /\ cpc[c] = "done"
        /\ ~seen_failure
        /\ submitted = 3
        /\ completed = 3
        /\ batch_count = 1

-----------------------------------------------------------------------------
(* C36: what the consumers that stay alive receive once a receiver is gone *)

\* The claimed indices are the indices below a bound
ClaimedIsPrefix ==
    \A i \in SeqToSet(claimed) : \A j \in 0..(i - 1) : j \in SeqToSet(claimed)

\* Every claimed segment routed to consumer c is in its channel, in its
\* reorder buffer or written, unless a worker still holds it
DeliveredOrHeld(c) ==
    \A id \in 1..total_segments :
        (RoutedTo(id) = c /\ (id - 1) \in SeqToSet(claimed))
            => \/ \E w \in Workers : wpc[w] = "send" /\ wseg[w].segment_id = id
               \/ \E k \in 1..Len(chan[c]) : chan[c][k].segment_id = id
               \/ id \in DOMAIN segment_buffer[c]
               \/ id \in SeqToSet(flushed[c])

\* C36: once a receiver was dropped, the claimed indices still form a prefix
\* of the index space; every claimed id routed to a consumer whose receiver
\* is open is delivered to it; when the channel of such a consumer closes its
\* reorder buffer is empty and it has written, in ascending order, exactly its
\* ids among the claimed segments; and that is what its file holds at the end
C36_LiveConsumersGapFree ==
    ~NoReceiverDropped =>
        /\ ClaimedIsPrefix
        /\ \A c \in Consumers :
              /\ cpc[c] = "recv" => DeliveredOrHeld(c)
              /\ LoopEnded(c)
                    => /\ DOMAIN segment_buffer[c] = {}
                       /\ SeqToSet(received[c]) = SeqToSet(flushed[c])
                       /\ flushed[c] = IdsOf(c, ClaimedSegments)
              /\ cpc[c] = "done"
                    => file[c] = EncodeAll(ConcatSegments(IdsOf(c, ClaimedSegments)))

\* The channel of a live consumer has closed after a receiver was dropped: it
\* received two segments or more, and the workers stopped before the last
\* segment of the run
C36_Witness ==
    /\ ~NoReceiverDropped
    /\ \E c \in Consumers :
          /\ LoopEnded(c)
          /\ Len(received[c]) >= 2
          /\ ClaimedSegments < total_segments

-----------------------------------------------------------------------------
(* C37: the submission queue of the asynchronous consumer never fills up *)

\* A step takes an id out of the reorder buffer of consumer c
RemovesSegment(c) ==
    \E id \in DOMAIN segment_buffer[c] : id \notin DOMAIN segment_buffer'[c]

\* C37: the entries pushed to the submission queue and not yet submitted to
\* the kernel never number more than BATCH_SIZE and never fill the queue of
\* QUEUE_DEPTH entries; so submit_write never fails: every step that takes a
\* segment out of the reorder buffer queues a write for it (submitted grows
\* by one and the id is recorded as written)
C37_QueueNeverFull ==
    /\ [](Len(sqes) <= BATCH_SIZE /\ Len(sqes) < QUEUE_DEPTH)
    /\ [][\A c \in Consumers :
            RemovesSegment(c)
                => /\ submitted' = submitted + 1
                   /\ Len(pending_buffers') = Len(pending_buffers) + 1
                   /\ Len(flushed'[c]) = Len(flushed[c]) + 1]_vars

\* A third write is queued and not yet submitted, after the batch of the first
\* two was submitted
C37_Witness ==
    /\ submitted = 3
    /\ Len(sqes) = 1
    /\ BATCH_SIZE > 1
    /\ \E c \in Consumers : Len(flushed[c]) = 3

-----------------------------------------------------------------------------
(* C38: the counters of UringBatchWriter and the buffers it holds *)

\* C38: in every state of the asynchronous writer completed <= submitted, so
\* in_flight() does not underflow, and pending_buffers holds as many buffers
\* as there are writes submitted and not completed
C38_CountersAndBuffers ==
    /\ completed <= submitted
    /\ in_flight >= 0
    /\ Len(pending_buffers) = submitted - completed

\* Two of three writes have completed: one buffer is left
C38_Witness ==
    /\ submitted = 3
    /\ completed = 2
    /\ Len(pending_buffers) = 1

-----------------------------------------------------------------------------
(* C39: the boundary between the privileged file and the segments *)

IsPrimeNumber(n) == n >= 2 /\ \A d \in 2..(n - 1) : n % d # 0

\* The values found in the files of the consumers
ConsumerValues == UNION {SeqToSet(DecodeFile(file[c])) : c \in Consumers}

=============================================================================
